------------------------ MODULE UserDataStreamProofs ------------------------
(***************************************************************************)
(* Safety of UserDataStream and its refinement of EventStream, for all     *)
(* sets of goroutine slots, keys and events and all bounds.                *)
(***************************************************************************)
EXTENDS UserDataStream, SequenceTheorems, TLAPS

Sockets == [key : Keys, state : {"open", "normal", "abnormal"}]

(* What the goroutine that is connecting or reading relies on.             *)
(* The key it asked for is its own until Close, and alive unless its last  *)
(* refresh failed.                                                         *)
KeyHeld ==
  \A r \in Slots :
    routines[r].pc \in {"dial", "publish", "inform", "callback", "loop", "reading"} =>
      /\ listenKey \in Keys
      /\ Done \/ listenKey \in liveKeys \/ lapsed

(* It is on the newest connection, opened for that key, and s.conn is that *)
(* connection as soon as it was published.                                 *)
ConnHeld ==
  \A r \in Slots :
    /\ routines[r].conn <= Len(sockets)
    /\ routines[r].pc \in {"publish", "inform", "callback", "loop", "reading"} =>
         Len(sockets) > 0 /\ sockets[Len(sockets)].key = listenKey
    /\ routines[r].pc = "publish" => routines[r].conn = Len(sockets)
    /\ routines[r].pc \in {"inform", "callback", "loop", "reading"} => conn = Len(sockets)
    /\ routines[r].pc = "reading" => routines[r].conn = Len(sockets)

(* Nothing is open while a connection is being made. *)
NoneOpen ==
  \A r \in Slots :
    routines[r].pc \in {"create", "dial", "respawn", "check", "wait", "closeOld"} =>
      ~ Open(Newest)

(* The handler knows which of the two it is. *)
ToldSo ==
  \A r \in Slots :
    /\ routines[r].pc \in {"create", "dial", "publish", "inform", "respawn",
                           "check", "wait", "closeOld"}
         => told \in {"nothing", "disconnected"}
    /\ routines[r].pc \in {"callback", "loop", "reading"}
         => Done \/ told \in {"connected", "reconnected"}

Inv == TypeOK /\ OneReader /\ KeyHeld /\ ConnHeld /\ NoneOpen /\ ToldSo

-----------------------------------------------------------------------------
(* Connections *)

(* A connection that ends keeps its key and its place. *)
LEMMA SocketEnds ==
  ASSUME sockets \in Seq(Sockets), NEW c \in DOMAIN sockets,
         NEW how \in {"normal", "abnormal"},
         sockets' = [sockets EXCEPT ![c].state = how]
  PROVE  /\ sockets' \in Seq(Sockets)
         /\ Len(sockets') = Len(sockets)
         /\ \A i \in 1..Len(sockets) :
              /\ sockets'[i].key = sockets[i].key
              /\ sockets'[i].state = "open" => sockets[i].state = "open"
         /\ sockets'[c].state = how
<1> DEFINE s == [key |-> sockets[c].key, state |-> how]
<1>1. c \in 1..Len(sockets) /\ sockets[c] \in Sockets
  OBVIOUS
<1>2. s \in Sockets /\ [sockets[c] EXCEPT !.state = how] = s
  BY <1>1 DEF Sockets
<1>3. sockets' = [sockets EXCEPT ![c] = s]
  BY <1>2
<1> HIDE DEF s
<1>4. /\ sockets' \in Seq(Sockets)
      /\ Len(sockets') = Len(sockets)
      /\ \A i \in 1..Len(sockets) : sockets'[i] = IF i = c THEN s ELSE sockets[i]
  BY <1>1, <1>2, <1>3, ExceptSeq
<1>5. s.key = sockets[c].key /\ s.state = how
  BY DEF s
<1> QED BY <1>1, <1>4, <1>5

LEMMA SocketOpens ==
  ASSUME sockets \in Seq(Sockets), NEW k \in Keys,
         sockets' = Append(sockets, [key |-> k, state |-> "open"])
  PROVE  /\ sockets' \in Seq(Sockets)
         /\ Len(sockets') = Len(sockets) + 1
         /\ sockets'[Len(sockets')].key = k
         /\ sockets'[Len(sockets')].state = "open"
<1> DEFINE s == [key |-> k, state |-> "open"]
<1>1. s \in Sockets
  BY DEF Sockets
<1>2. s.key = k /\ s.state = "open"
  OBVIOUS
<1> HIDE DEF s
<1>3. sockets' = Append(sockets, s)
  BY DEF s
<1>4. Len(sockets) \in Nat
  OBVIOUS
<1> QED BY <1>1, <1>2, <1>3, <1>4, AppendProperties

-----------------------------------------------------------------------------
(* Who moves *)

(* One goroutine has the stream: the others rest or unwind. *)
LEMMA OthersRest ==
  ASSUME Inv, NEW r \in Slots, Active(r), NEW s \in Slots, s # r
  PROVE  routines[s].pc \in {"idle", "unwind"}
BY DEF Inv, OneReader, Active

(* A free slot is free. *)
LEMMA FreeIsIdle ==
  ASSUME HasRoom
  PROVE  Free \in Slots /\ routines[Free].pc = "idle"
BY DEF HasRoom, Free

(* A goroutine that goes on, or ends, leaves the others where they are. *)
LEMMA GotoMoves ==
  ASSUME routines \in [Slots -> Routines], NEW r \in Slots, NEW step \in Steps, Goto(r, step)
  PROVE  /\ routines' \in [Slots -> Routines]
         /\ \A s \in Slots : s # r => routines'[s] = routines[s]
         /\ routines'[r].pc = step
         /\ routines'[r].conn = routines[r].conn
BY DEF Goto, Routines

LEMMA TakesConn ==
  ASSUME routines \in [Slots -> Routines], NEW r \in Slots, NEW step \in Steps, NEW c \in Nat,
         routines' = [routines EXCEPT ![r].pc = step, ![r].conn = c]
  PROVE  /\ routines' \in [Slots -> Routines]
         /\ \A s \in Slots : s # r => routines'[s] = routines[s]
         /\ routines'[r].pc = step
         /\ routines'[r].conn = c
BY DEF Routines

LEMMA ExitMoves ==
  ASSUME routines \in [Slots -> Routines], NEW r \in Slots, Exit(r)
  PROVE  /\ routines' \in [Slots -> Routines]
         /\ \A s \in Slots : s # r => routines'[s] = routines[s]
         /\ routines'[r].pc = "idle"
         /\ routines'[r].conn = 0
BY DEF Exit, Idle, Routines, Steps

-----------------------------------------------------------------------------
(* Every action keeps the invariant. *)

LEMMA InitInv == Init => Inv
<1> SUFFICES ASSUME Init PROVE Inv
  OBVIOUS
<1> USE DEF Init
<1>1. routines \in [Slots -> Routines]
      /\ \A r \in Slots : routines[r].conn = 0 /\ routines[r].pc \in {"idle", "create"}
  BY DEF Routines, Steps, Idle
<1>2. OneReader
  BY DEF OneReader, Active, Idle
<1>3. TypeOK
  <2>1. sockets \in Seq([key : Keys, state : {"open", "normal", "abnormal"}]) /\ wire \in Seq(Events)
    OBVIOUS
  <2>2. conn \in 0..Len(sockets) /\ liveKeys \subseteq Keys
    OBVIOUS
  <2> QED BY <1>1, <2>1, <2>2 DEF TypeOK
<1>4. KeyHeld /\ ConnHeld /\ ToldSo
  BY <1>1 DEF KeyHeld, ConnHeld, ToldSo
<1>5. NoneOpen
  BY <1>1 DEF NoneOpen, Open, Newest
<1> QED BY <1>2, <1>3, <1>4, <1>5 DEF Inv

LEMMA CreateInv ==
  ASSUME Inv, NEW r \in Slots, CreateListenKey(r)
  PROVE  Inv'
<1> USE DEF Inv
<1>1. /\ routines' \in [Slots -> Routines]
      /\ \A s \in Slots : s # r => routines'[s] = routines[s]
      /\ routines'[r].pc = "dial" /\ routines'[r].conn = routines[r].conn
  BY GotoMoves DEF CreateListenKey, TypeOK, Steps
<1>2. \A s \in Slots : s # r => routines[s].pc \in {"idle", "unwind"}
  BY OthersRest DEF CreateListenKey, Active
<1> USE DEF CreateListenKey
<1>3. TypeOK'
  BY <1>1 DEF TypeOK
<1>4. OneReader'
  BY <1>1, <1>2 DEF OneReader, Active
<1>5. KeyHeld'
  BY <1>1, <1>2 DEF KeyHeld, Done
<1>6. ConnHeld'
  BY <1>1, <1>2 DEF ConnHeld
<1>7. NoneOpen'
  BY <1>1, <1>2 DEF NoneOpen, Open, Newest
<1>8. ToldSo'
  BY <1>1, <1>2 DEF ToldSo, Done
<1> QED BY <1>3, <1>4, <1>5, <1>6, <1>7, <1>8

(* The steps of a goroutine that change nothing but where it is: it leaves *)
(* the stream, seeks on, or goes to read.                                  *)
LEMMA QuietInv ==
  ASSUME Inv, NEW r \in Slots,
         \/ CreateListenKeyFails(r) \/ DialFails(r) \/ Read(r) \/ ReadEnds(r)
         \/ Check(r) \/ GiveUp(r) \/ Wake(r)
  PROVE  Inv'
<1> USE DEF Inv
<1>1. routines \in [Slots -> Routines] /\ Active(r) /\ UNCHANGED <<stream, stopping, binance>>
  BY DEF TypeOK, Active, CreateListenKeyFails, DialFails, Read, ReadEnds, Failed, Check, GiveUp, Wake
<1>2. /\ routines' \in [Slots -> Routines]
      /\ \A s \in Slots : s # r => routines'[s] = routines[s]
      /\ \/ routines'[r].pc \in {"idle", "unwind"} /\ routines'[r].conn \in {0, routines[r].conn}
         \/ /\ routines[r].pc \in {"create", "dial", "check", "wait"}
            /\ routines'[r].pc \in {"check", "wait", "closeOld"}
            /\ routines'[r].conn = routines[r].conn
         \/ routines[r].pc = "loop" /\ routines'[r].pc = "reading" /\ routines'[r].conn = conn
  <2>1. ASSUME NEW step \in Steps, Goto(r, step)
        PROVE  /\ routines' \in [Slots -> Routines]
               /\ \A s \in Slots : s # r => routines'[s] = routines[s]
               /\ routines'[r].pc = step /\ routines'[r].conn = routines[r].conn
    BY <1>1, <2>1, GotoMoves
  <2>2. ASSUME Exit(r)
        PROVE  /\ routines' \in [Slots -> Routines]
               /\ \A s \in Slots : s # r => routines'[s] = routines[s]
               /\ routines'[r].pc = "idle" /\ routines'[r].conn = 0
    BY <1>1, <2>2, ExitMoves
  <2>3. {"unwind", "check", "wait", "closeOld"} \subseteq Steps
    BY DEF Steps
  <2>4. CASE CreateListenKeyFails(r) \/ DialFails(r)
    BY <2>1, <2>2, <2>3, <2>4 DEF CreateListenKeyFails, DialFails, ConnectFails
  <2>5. CASE Read(r)
    <3>1. CASE Goto(r, "unwind")
      BY <2>1, <2>3, <3>1
    <3>2. CASE routines' = [routines EXCEPT ![r].pc = "reading", ![r].conn = conn]
      <4>1. conn \in Nat
        BY DEF TypeOK
      <4>2. /\ routines' \in [Slots -> Routines]
            /\ \A s \in Slots : s # r => routines'[s] = routines[s]
            /\ routines'[r].pc = "reading" /\ routines'[r].conn = conn
        BY <1>1, <3>2, <4>1, TakesConn DEF Steps
      <4> QED BY <2>5, <4>2 DEF Read
    <3> QED BY <2>5, <3>1, <3>2 DEF Read
  <2>6. CASE ReadEnds(r) \/ Check(r) \/ GiveUp(r) \/ Wake(r)
    BY <2>1, <2>2, <2>3, <2>6 DEF ReadEnds, Check, GiveUp, Wake
  <2> QED BY <2>4, <2>5, <2>6
<1>3. \A s \in Slots : s # r => routines'[s].pc \in {"idle", "unwind"}
  BY <1>1, <1>2, OthersRest
<1> USE DEF stream, binance
<1>4. TypeOK'
  BY <1>1, <1>2 DEF TypeOK
<1>5. OneReader'
  BY <1>1, <1>2, <1>3 DEF OneReader, Active
<1>6. KeyHeld'
  BY <1>1, <1>2, <1>3 DEF KeyHeld, Done
<1>7. ConnHeld'
  BY <1>1, <1>2, <1>3 DEF ConnHeld, TypeOK
<1>8. NoneOpen'
  BY <1>1, <1>2, <1>3 DEF NoneOpen, Open, Newest
<1>9. ToldSo'
  BY <1>1, <1>2, <1>3 DEF ToldSo, Done
<1> QED BY <1>4, <1>5, <1>6, <1>7, <1>8, <1>9

(* Steps of anybody else leave the goroutines where they are: connections  *)
(* only end, the key in use is closed only after Close has begun.          *)
LEMMA OutsideInv ==
  ASSUME Inv,
         \/ Refresh \/ KeepAliveEnds \/ Cancel \/ CloseDoneChan \/ CloseConn \/ CloseListenKey
         \/ CloseReports \/ Break \/ (\E e \in Events : Emit(e)) \/ (\E k \in Keys : Expire(k))
  PROVE  Inv'
<1> USE DEF Inv
<1>1. routines' = routines /\ listenKey' = listenKey /\ conn' = conn
  BY DEF Refresh, KeepAliveEnds, Cancel, CloseDoneChan, CloseConn, CloseListenKey, CloseReports,
     Break, Emit, Expire, stream
<1>2. Done => Done'
  BY DEF Refresh, KeepAliveEnds, Cancel, CloseDoneChan, CloseConn, CloseListenKey, CloseReports,
     Break, Emit, Expire, StopGoes, Done
<1>3. /\ liveKeys' \subseteq liveKeys
      /\ listenKey \in liveKeys \/ lapsed => Done' \/ listenKey \in liveKeys' \/ lapsed'
  <2>1. CASE Refresh
    BY <2>1 DEF Refresh, Refreshed
  <2>2. CASE \E k \in Keys : Expire(k)
    BY <2>2 DEF Expire, Refreshed
  <2>3. CASE \/ KeepAliveEnds \/ Cancel \/ CloseDoneChan \/ CloseConn \/ CloseReports \/ Break
             \/ \E e \in Events : Emit(e)
    BY <2>3 DEF KeepAliveEnds, Cancel, CloseDoneChan, CloseConn, CloseReports, Break, Emit, binance
  <2>4. CASE CloseListenKey
    BY <2>4 DEF CloseListenKey, CloseKey, StopGoes, Done
  <2> QED BY <2>1, <2>2, <2>3, <2>4
<1>4. told' = told \/ (Done' /\ told' = "disconnected")
  BY DEF Refresh, KeepAliveEnds, Cancel, CloseDoneChan, CloseConn, CloseListenKey, CloseReports,
     Break, Emit, Expire, stream, StopGoes, Done
<1>5. /\ sockets' \in Seq(Sockets)
      /\ Len(sockets') = Len(sockets)
      /\ \A i \in 1..Len(sockets) :
           /\ sockets'[i].key = sockets[i].key
           /\ sockets'[i].state = "open" => sockets[i].state = "open"
  <2>1. sockets \in Seq(Sockets)
    BY DEF TypeOK, Sockets
  <2>2. CASE UNCHANGED sockets
    BY <2>1, <2>2
  <2>3. CASE CloseConn
    BY <2>1, <2>2, <2>3, SocketEnds DEF CloseConn, Open
  <2>4. CASE Break
    BY <2>1, <2>4, SocketEnds, ClosingsAssumption DEF Break, Open
  <2>5. CASE \/ Refresh \/ KeepAliveEnds \/ Cancel \/ CloseDoneChan \/ CloseListenKey \/ CloseReports
             \/ (\E e \in Events : Emit(e)) \/ (\E k \in Keys : Expire(k))
    <3>1. UNCHANGED sockets
      BY <2>5 DEF Refresh, KeepAliveEnds, Cancel, CloseDoneChan, CloseListenKey, CloseReports,
         Emit, Expire, binance
    <3> QED BY <3>1, <2>2
  <2> QED BY <2>3, <2>4, <2>5
<1>6. wire' \in Seq(Events)
  <2>1. wire \in Seq(Events) /\ <<>> \in Seq(Events)
    BY DEF TypeOK
  <2>2. CASE \E e \in Events : Emit(e)
    BY <2>1, <2>2, AppendProperties DEF Emit
  <2>3. wire' \in {wire, <<>>} \/ \E e \in Events : Emit(e)
    BY DEF Refresh, KeepAliveEnds, Cancel, CloseDoneChan, CloseConn, CloseListenKey, CloseReports,
       Break, Expire, binance
  <2> QED BY <2>1, <2>2, <2>3
<1>7. lapsed' \in BOOLEAN /\ connected' \in BOOLEAN /\ wasConnected' \in BOOLEAN /\ keepAlives' \in Nat
  <2>1. connected' \in {connected, FALSE} /\ wasConnected' = wasConnected
    BY DEF Refresh, KeepAliveEnds, Cancel, CloseDoneChan, CloseConn, CloseListenKey,
       CloseReports, Break, Emit, Expire, stream
  <2>2. keepAlives' = keepAlives \/ (keepAlives > 0 /\ keepAlives' = keepAlives - 1)
    BY DEF Refresh, KeepAliveEnds, Cancel, CloseDoneChan, CloseConn, CloseListenKey,
       CloseReports, Break, Emit, Expire, stream
  <2>3. keepAlives' \in Nat
    BY <2>2 DEF TypeOK
  <2>4. lapsed' \in {lapsed, TRUE, FALSE}
    <3>1. (Refreshed \notin liveKeys) \in BOOLEAN
      OBVIOUS
    <3> QED BY <3>1 DEF Refresh, KeepAliveEnds, Cancel, CloseDoneChan, CloseConn, CloseListenKey,
       CloseReports, Break, Emit, Expire, binance
  <2> QED BY <2>1, <2>3, <2>4, Zenon DEF TypeOK
<1>8. stopping' \in {"running", "cancelled", "done", "connClosed", "keyClosed", "closed"}
  BY DEF TypeOK, Refresh, KeepAliveEnds, Cancel, CloseDoneChan, CloseConn, CloseListenKey,
     CloseReports, Break, Emit, Expire, StopGoes
<1>9. TypeOK'
  BY <1>1, <1>3, <1>4, <1>5, <1>6, <1>7, <1>8 DEF TypeOK, Sockets
<1>10. OneReader'
  BY <1>1 DEF OneReader, Active
<1>11. KeyHeld'
  BY <1>1, <1>2, <1>3 DEF KeyHeld
<1>12. ConnHeld'
  <2>1. Len(sockets) \in Nat
    BY DEF TypeOK
  <2> QED BY <1>1, <1>5, <2>1 DEF ConnHeld
<1>13. NoneOpen'
  <2>1. sockets \in Seq(Sockets)
    BY DEF TypeOK, Sockets
  <2>2. Open(Newest)' => Open(Newest)
    BY <1>5, <2>1 DEF Open, Newest
  <2> QED BY <1>1, <2>2 DEF NoneOpen
<1>14. ToldSo'
  BY <1>1, <1>2, <1>4 DEF ToldSo
<1> QED BY <1>9, <1>10, <1>11, <1>12, <1>13, <1>14

LEMMA PublishInv ==
  ASSUME Inv, NEW r \in Slots, Publish(r)
  PROVE  Inv'
<1> USE DEF Inv
<1>1. /\ routines' \in [Slots -> Routines]
      /\ \A s \in Slots : s # r => routines'[s] = routines[s]
      /\ routines'[r].pc = "inform" /\ routines'[r].conn = routines[r].conn
  BY DEF TypeOK, Publish, Idle, Routines, Steps
<1>2. \A s \in Slots : s # r => routines'[s].pc \in {"idle", "unwind"}
  BY <1>1, OthersRest DEF Publish, Active
<1>3. TypeOK'
  <2>1. conn' \in 0..Len(sockets)
    BY DEF TypeOK, ConnHeld, Publish
  <2>2. connected' \in BOOLEAN /\ wasConnected' \in BOOLEAN
    BY DEF Publish
  <2> QED BY <1>1, <2>1, <2>2 DEF TypeOK, Publish, binance
<1>4. OneReader'
  BY <1>1, <1>2 DEF OneReader, Active
<1>5. KeyHeld'
  BY <1>1, <1>2 DEF KeyHeld, Done, Publish, stream, binance
<1>6. ConnHeld'
  BY <1>1, <1>2 DEF ConnHeld, TypeOK, Publish, stream, binance
<1>7. NoneOpen'
  BY <1>1, <1>2 DEF NoneOpen, Open, Newest, Publish, stream, binance
<1>8. ToldSo'
  BY <1>1, <1>2 DEF ToldSo, Done, Publish, stream, binance
<1> QED BY <1>3, <1>4, <1>5, <1>6, <1>7, <1>8

LEMMA InformInv ==
  ASSUME Inv, NEW r \in Slots, Inform(r)
  PROVE  Inv'
<1> USE DEF Inv
<1>1. /\ routines' \in [Slots -> Routines]
      /\ \A s \in Slots : s # r => routines'[s] = routines[s]
      /\ routines'[r].pc = "callback" /\ routines'[r].conn = routines[r].conn
  BY GotoMoves DEF TypeOK, Steps, Inform
<1>2. \A s \in Slots : s # r => routines'[s].pc \in {"idle", "unwind"}
  BY <1>1, OthersRest DEF Inform, Active
<1>3. TypeOK'
  BY <1>1 DEF TypeOK, Inform, stream, binance
<1>4. OneReader'
  BY <1>1, <1>2 DEF OneReader, Active
<1>5. KeyHeld'
  BY <1>1, <1>2 DEF KeyHeld, Done, Inform, stream, binance
<1>6. ConnHeld'
  BY <1>1, <1>2 DEF ConnHeld, TypeOK, Inform, stream, binance
<1>7. NoneOpen'
  BY <1>1, <1>2 DEF NoneOpen, Open, Newest, Inform, stream, binance
<1>8. ToldSo'
  BY <1>1, <1>2 DEF ToldSo, Done, Inform, stream, binance
<1> QED BY <1>3, <1>4, <1>5, <1>6, <1>7, <1>8

LEMMA ListenInv ==
  ASSUME Inv, NEW r \in Slots, Listen(r)
  PROVE  Inv'
<1> USE DEF Inv
<1>1. /\ routines' \in [Slots -> Routines]
      /\ \A s \in Slots : s # r => routines'[s] = routines[s]
      /\ routines'[r].pc = "loop" /\ routines'[r].conn = 0
  BY DEF TypeOK, Listen, Idle, Routines, Steps
<1>2. \A s \in Slots : s # r => routines'[s].pc \in {"idle", "unwind"}
  BY <1>1, OthersRest DEF Listen, Active
<1>3. TypeOK'
  BY <1>1 DEF TypeOK, Listen, stream, binance
<1>4. OneReader'
  BY <1>1, <1>2 DEF OneReader, Active
<1>5. KeyHeld'
  BY <1>1, <1>2 DEF KeyHeld, Done, Listen, stream, binance
<1>6. ConnHeld'
  BY <1>1, <1>2 DEF ConnHeld, TypeOK, Listen, stream, binance
<1>7. NoneOpen'
  BY <1>1, <1>2 DEF NoneOpen, Open, Newest, Listen, stream, binance
<1>8. ToldSo'
  BY <1>1, <1>2 DEF ToldSo, Done, Listen, stream, binance
<1> QED BY <1>3, <1>4, <1>5, <1>6, <1>7, <1>8

LEMMA ReceiveInv ==
  ASSUME Inv, NEW r \in Slots, Receive(r)
  PROVE  Inv'
<1> USE DEF Inv
<1>1. /\ routines' \in [Slots -> Routines]
      /\ \A s \in Slots : s # r => routines'[s] = routines[s]
      /\ routines'[r].pc = "loop" /\ routines'[r].conn = routines[r].conn
  BY GotoMoves DEF TypeOK, Steps, Receive
<1>2. \A s \in Slots : s # r => routines'[s].pc \in {"idle", "unwind"}
  BY <1>1, OthersRest DEF Receive, Active
<1>3. TypeOK'
  BY <1>1, HeadTailProperties DEF TypeOK, Receive, stream, binance
<1>4. OneReader'
  BY <1>1, <1>2 DEF OneReader, Active
<1>5. KeyHeld'
  BY <1>1, <1>2 DEF KeyHeld, Done, Receive, stream, binance
<1>6. ConnHeld'
  BY <1>1, <1>2 DEF ConnHeld, TypeOK, Receive, stream, binance
<1>7. NoneOpen'
  BY <1>1, <1>2 DEF NoneOpen, Open, Newest, Receive, stream, binance
<1>8. ToldSo'
  BY <1>1, <1>2 DEF ToldSo, Done, Receive, stream, binance
<1> QED BY <1>3, <1>4, <1>5, <1>6, <1>7, <1>8

LEMMA ReadFailsInv ==
  ASSUME Inv, NEW r \in Slots, ReadFails(r)
  PROVE  Inv'
<1> USE DEF Inv
<1>1. /\ routines' \in [Slots -> Routines]
      /\ \A s \in Slots : s # r => routines'[s] = routines[s]
      /\ routines'[r].pc = "respawn" /\ routines'[r].conn = routines[r].conn
  BY GotoMoves DEF TypeOK, Steps, ReadFails
<1>2. \A s \in Slots : s # r => routines'[s].pc \in {"idle", "unwind"}
  BY <1>1, OthersRest DEF ReadFails, Failed, Active
<1>3. TypeOK'
  BY <1>1 DEF TypeOK, ReadFails, Failed, stream, binance
<1>4. OneReader'
  BY <1>1, <1>2 DEF OneReader, Active
<1>5. KeyHeld'
  BY <1>1, <1>2 DEF KeyHeld, Done, ReadFails, Failed, stream, binance
<1>6. ConnHeld'
  BY <1>1, <1>2 DEF ConnHeld, TypeOK, ReadFails, Failed, stream, binance
<1>7. NoneOpen'
  BY <1>1, <1>2 DEF NoneOpen, ConnHeld, Open, Newest, ReadFails, Failed, stream, binance
<1>8. ToldSo'
  BY <1>1, <1>2 DEF ToldSo, Done, ReadFails, Failed, stream, binance
<1> QED BY <1>3, <1>4, <1>5, <1>6, <1>7, <1>8

LEMMA CloseOldKeyInv ==
  ASSUME Inv, NEW r \in Slots, CloseOldKey(r)
  PROVE  Inv'
<1> USE DEF Inv
<1>1. /\ routines' \in [Slots -> Routines]
      /\ \A s \in Slots : s # r => routines'[s] = routines[s]
      /\ routines'[r].pc = "create" /\ routines'[r].conn = routines[r].conn
  BY GotoMoves DEF TypeOK, Steps, CloseOldKey
<1>2. \A s \in Slots : s # r => routines'[s].pc \in {"idle", "unwind"}
  BY <1>1, OthersRest DEF CloseOldKey, Active
<1>3. TypeOK'
  BY <1>1 DEF TypeOK, CloseOldKey, CloseKey, stream, binance
<1>4. OneReader'
  BY <1>1, <1>2 DEF OneReader, Active
<1>5. KeyHeld'
  BY <1>1, <1>2 DEF KeyHeld, Done, CloseOldKey, CloseKey, stream, binance
<1>6. ConnHeld'
  BY <1>1, <1>2 DEF ConnHeld, TypeOK, CloseOldKey, CloseKey, stream, binance
<1>7. NoneOpen'
  BY <1>1, <1>2 DEF NoneOpen, Open, Newest, CloseOldKey, CloseKey, stream, binance
<1>8. ToldSo'
  BY <1>1, <1>2 DEF ToldSo, Done, CloseOldKey, CloseKey, stream, binance
<1> QED BY <1>3, <1>4, <1>5, <1>6, <1>7, <1>8

(* The new connection is the newest, and the only one that may be open. *)
LEMMA DialInv ==
  ASSUME Inv, NEW r \in Slots, Dial(r)
  PROVE  Inv'
<1> USE DEF Inv
<1>1. listenKey \in Keys
  BY DEF KeyHeld, Dial
<1>2. /\ sockets' \in Seq(Sockets)
      /\ Len(sockets) \in Nat /\ Len(sockets') = Len(sockets) + 1
      /\ sockets'[Len(sockets')].key = listenKey
  BY <1>1, SocketOpens DEF TypeOK, Sockets, Dial
<1>3. /\ routines' \in [Slots -> Routines]
      /\ \A s \in Slots : s # r => routines'[s] = routines[s]
      /\ routines'[r].pc = "publish" /\ routines'[r].conn = Len(sockets')
  <2>1. routines \in [Slots -> Routines] /\ routines[r].pc = "dial"
    BY DEF TypeOK, Dial
  <2>2. routines' = [routines EXCEPT ![r].pc = "publish", ![r].conn = Len(sockets')]
    BY <1>2 DEF Dial
  <2>3. Len(sockets') \in Nat /\ "publish" \in Steps
    BY <1>2 DEF Steps
  <2> HIDE DEF Inv
  <2> QED BY <2>1, <2>2, <2>3, TakesConn
<1>4. \A s \in Slots : s # r => routines'[s].pc \in {"idle", "unwind"}
  BY <1>3, OthersRest DEF Dial, Active
<1>5. TypeOK'
  <2>1. wire' \in Seq(Events)
    BY DEF Dial
  <2>2. conn' \in 0..Len(sockets')
    BY <1>2 DEF TypeOK, Dial, stream
  <2> QED BY <1>2, <1>3, <2>1, <2>2 DEF TypeOK, Dial, stream, Sockets
<1>6. OneReader'
  BY <1>3, <1>4 DEF OneReader, Active
<1>7. KeyHeld'
  BY <1>3, <1>4 DEF KeyHeld, Done, Dial, stream
<1>8. ConnHeld'
  BY <1>2, <1>3, <1>4 DEF ConnHeld, Dial, TypeOK, Routines, stream
<1>9. NoneOpen'
  BY <1>3, <1>4 DEF NoneOpen
<1>10. ToldSo'
  BY <1>3, <1>4 DEF ToldSo, Dial, stream
<1> QED BY <1>5, <1>6, <1>7, <1>8, <1>9, <1>10

(* readLoop hands the stream on: it unwinds while reconnectLoop starts. *)
LEMMA RespawnInv ==
  ASSUME Inv, NEW r \in Slots, Respawn(r)
  PROVE  Inv'
<1> USE DEF Inv
<1>1. Free \in Slots /\ routines[Free].pc = "idle" /\ Free # r
  BY FreeIsIdle DEF Respawn
<1>2. /\ routines' \in [Slots -> Routines]
      /\ \A s \in Slots : s \notin {r, Free} => routines'[s] = routines[s]
      /\ routines'[r].pc = "unwind" /\ routines'[r].conn = routines[r].conn
      /\ routines'[Free].pc = "check" /\ routines'[Free].conn = 0
  BY <1>1 DEF TypeOK, Respawn, Idle, Routines, Steps
<1>3. \A s \in Slots : s # Free => routines'[s].pc \in {"idle", "unwind"}
  BY <1>1, <1>2, OthersRest DEF Respawn, Active
<1>4. TypeOK'
  BY <1>2 DEF TypeOK, Respawn, stream, binance
<1>5. OneReader'
  BY <1>1, <1>3 DEF OneReader, Active
<1>6. KeyHeld'
  BY <1>1, <1>2, <1>3 DEF KeyHeld
<1>7. ConnHeld'
  <2>1. Len(sockets) \in Nat /\ UNCHANGED <<sockets, conn, listenKey>>
    BY DEF TypeOK, Respawn, stream, binance
  <2>2. \A s \in Slots : s # Free => routines'[s].conn = routines[s].conn
    BY <1>2
  <2> QED BY <1>1, <1>2, <1>3, <2>1, <2>2 DEF ConnHeld
<1>8. NoneOpen'
  BY <1>1, <1>2, <1>3 DEF NoneOpen, Open, Newest, Respawn, stream, binance
<1>9. ToldSo'
  BY <1>1, <1>2, <1>3 DEF ToldSo, Respawn, stream
<1> QED BY <1>4, <1>5, <1>6, <1>7, <1>8, <1>9

LEMMA UnwindInv ==
  ASSUME Inv, NEW r \in Slots, Unwind(r)
  PROVE  Inv'
<1> USE DEF Inv
<1>1. /\ routines' \in [Slots -> Routines]
      /\ \A s \in Slots : s # r => routines'[s] = routines[s]
      /\ routines'[r].pc = "idle" /\ routines'[r].conn = 0
  BY ExitMoves DEF TypeOK, Unwind
<1>2. connected' \in BOOLEAN
  BY DEF Unwind
<1>3. TypeOK'
  BY <1>1, <1>2 DEF TypeOK, Unwind, binance
<1>4. OneReader'
  BY <1>1 DEF OneReader, Active, Unwind
<1>5. KeyHeld'
  BY <1>1 DEF KeyHeld, Done, Unwind, binance
<1>6. ConnHeld'
  BY <1>1 DEF ConnHeld, TypeOK, Unwind, binance
<1>7. NoneOpen'
  BY <1>1 DEF NoneOpen, Open, Newest, Unwind, binance
<1>8. ToldSo'
  BY <1>1 DEF ToldSo, Done, Unwind
<1> QED BY <1>3, <1>4, <1>5, <1>6, <1>7, <1>8

(* Every step keeps the invariant, and so it always holds. *)
THEOREM Invariance == Spec => []Inv
<1>1. Init => Inv
  BY InitInv
<1>2. Inv /\ [Next]_vars => Inv'
  <2> SUFFICES ASSUME Inv, [Next]_vars PROVE Inv'
    OBVIOUS
  <2>1. ASSUME NEW r \in Slots, Step(r) PROVE Inv'
    BY <2>1, CreateInv, QuietInv, DialInv, PublishInv, InformInv, ListenInv, ReceiveInv,
       ReadFailsInv, RespawnInv, UnwindInv, CloseOldKeyInv DEF Step
  <2>2. CASE \/ Refresh \/ KeepAliveEnds \/ Cancel \/ Stop \/ Break
             \/ (\E e \in Events : Emit(e)) \/ (\E k \in Keys : Expire(k))
    BY <2>2, OutsideInv DEF Stop
  <2>3. CASE UNCHANGED vars
    BY <2>3 DEF vars, Inv, TypeOK, OneReader, Active, KeyHeld, Done, ConnHeld, NoneOpen,
       Open, Newest, ToldSo
  <2> QED BY <2>1, <2>2, <2>3 DEF Next
<1> QED BY <1>1, <1>2, PTL DEF Spec

-----------------------------------------------------------------------------
(* What the runs check, for all constants. *)

(* TypeOK: every variable of the stream keeps its type. *)
THEOREM StreamTypeCorrect == Spec => []TypeOK
<1>1. Inv => TypeOK
  BY DEF Inv
<1> QED BY <1>1, Invariance, PTL

(* OneReader: whatever breaks and whenever Close runs, at most one         *)
(* goroutine connects, reads or waits to reconnect.                        *)
THEOREM AtMostOneReader == Spec => []OneReader
<1>1. Inv => OneReader
  BY DEF Inv
<1> QED BY <1>1, Invariance, PTL

(* ReadsOnLiveKey: before Close, the stream itself neither closes the key  *)
(* of the connection it reads nor leaves it to expire: only where the last *)
(* refresh of it failed may the key be gone.                               *)
THEOREM KeyOutlivesReading == Spec => []ReadsOnLiveKey
<1>1. Inv => ReadsOnLiveKey
  BY DEF Inv, KeyHeld, ConnHeld, ReadsOnLiveKey
<1> QED BY <1>1, Invariance, PTL

(* ConnectedHasReader: whenever s.connected is set, somebody reads, is     *)
(* about to, or is on the way to reset it, although the reset of one       *)
(* readLoop and the connect that follows it run in any order.              *)
THEOREM ConnectedMeansReader == Spec => []ConnectedHasReader
<1> DEFINE Near(r) == routines[r].pc \in {"inform", "callback", "loop", "reading", "respawn", "unwind"}
<1>1. Init => ConnectedHasReader
  BY DEF Init, ConnectedHasReader
<1>2. Inv /\ ConnectedHasReader /\ [Next]_vars => ConnectedHasReader'
  <2> SUFFICES ASSUME Inv, ConnectedHasReader, [Next]_vars, connected'
               PROVE  \E r \in Slots : Near(r)'
    BY DEF ConnectedHasReader
  <2>1. routines \in [Slots -> Routines]
    BY DEF Inv, TypeOK
  <2>2. CASE UNCHANGED <<routines, connected>>
    BY <2>2 DEF ConnectedHasReader
  <2>3. CASE Refresh \/ KeepAliveEnds \/ Cancel \/ Stop \/ Break
             \/ (\E e \in Events : Emit(e)) \/ (\E k \in Keys : Expire(k))
    <3>1. routines' = routines /\ connected' \in {connected, FALSE}
      BY <2>3 DEF Refresh, KeepAliveEnds, Cancel, Stop, CloseDoneChan, CloseConn, CloseListenKey,
         CloseReports, Break, Emit, Expire, stream
    <3> QED BY <2>2, <3>1
  <2>4. ASSUME NEW r \in Slots, Step(r) PROVE \E s \in Slots : Near(s)'
    <3>1. CASE Publish(r) \/ Inform(r) \/ Listen(r) \/ Receive(r) \/ ReadFails(r) \/ Respawn(r)
      <4>1. HasRoom => Free # r \/ routines[r].pc = "idle"
        BY FreeIsIdle
      <4>2. Near(r)'
        BY <2>1, <3>1, <4>1 DEF Publish, Inform, Listen, Receive, ReadFails, Respawn,
           Goto, Idle, Routines
      <4> QED BY <4>2
    <3>2. CASE Read(r) \/ ReadEnds(r)
      BY <2>1, <3>2 DEF Read, ReadEnds, Goto, Routines
    <3>3. CASE \/ CreateListenKey(r) \/ CreateListenKeyFails(r) \/ Dial(r) \/ DialFails(r)
               \/ Check(r) \/ GiveUp(r) \/ Wake(r) \/ CloseOldKey(r)
      <4>1. connected' = connected /\ ~ Near(r)
        BY <3>3 DEF CreateListenKey, CreateListenKeyFails, Dial, DialFails, Check, GiveUp,
           Wake, CloseOldKey, stream
      <4>2. \A s \in Slots : s # r => routines'[s] = routines[s]
        BY <2>1, <3>3 DEF CreateListenKey, CreateListenKeyFails, Dial, DialFails,
           ConnectFails, Check, GiveUp, Wake, CloseOldKey, Goto, Exit
      <4> QED BY <4>1, <4>2 DEF ConnectedHasReader
    <3>4. CASE Unwind(r)
      BY <3>4 DEF Unwind
    <3> QED BY <2>4, <3>1, <3>2, <3>3, <3>4 DEF Step
  <2> QED BY <2>2, <2>3, <2>4 DEF Next, vars
<1> QED BY <1>1, <1>2, Invariance, PTL DEF Spec

-----------------------------------------------------------------------------
(* Refinement *)

(* Where the one goroutine that has the stream is decides what the handler *)
(* sees.                                                                   *)
Untold == IF told = "nothing" THEN "new" ELSE IF told = "disconnected" THEN "lost" ELSE "ended"

ModeFollows ==
  /\ Done => Mode = "closed" /\ Link = "none" /\ Unread = <<>>
  /\ ~ Done => \A r \in Slots :
       /\ routines[r].pc = "callback" => Mode = "informing"
       /\ routines[r].pc \in {"loop", "reading"} => Mode = "reading"
       /\ routines[r].pc \in {"create", "dial", "publish", "inform", "respawn", "check",
                              "wait", "closeOld"} => Mode = Untold
  /\ ~ Done => Unread = wire /\ Link = IF sockets = <<>> THEN "none"
                                       ELSE IF Open(Newest) THEN "open" ELSE "broken"

LEMMA ModeIs == Inv => ModeFollows
<1> SUFFICES ASSUME Inv PROVE ModeFollows
  OBVIOUS
<1>1. Done => Mode = "closed" /\ Link = "none" /\ Unread = <<>>
  BY DEF Mode, Link, Unread
<1>2. ASSUME ~ Done, NEW r \in Slots
      PROVE  /\ routines[r].pc = "callback" => Mode = "informing"
             /\ routines[r].pc \in {"loop", "reading"} => Mode = "reading"
             /\ routines[r].pc \in {"create", "dial", "publish", "inform", "respawn", "check",
                                    "wait", "closeOld"} => Mode = Untold
  <2>1. Active(r) => \A s \in Slots : s # r => routines[s].pc \in {"idle", "unwind"}
    BY OthersRest
  <2> QED BY <1>2, <2>1 DEF Mode, SomeAt, Active, Untold
<1>3. ~ Done => Unread = wire /\ Link = IF sockets = <<>> THEN "none"
                                       ELSE IF Open(Newest) THEN "open" ELSE "broken"
  BY DEF Unread, Link
<1> QED BY <1>1, <1>2, <1>3 DEF ModeFollows

LEMMA ModeIsNext == Inv' => ModeFollows'
BY ModeIs, PTL

(* Init promises what EventStream begins with. *)
LEMMA InitPromised == Init => Promised!StreamInit
<1> SUFFICES ASSUME Init PROVE Promised!StreamInit
  OBVIOUS
<1>1. ~ Done /\ \A r \in Slots : routines[r].pc \in {"idle", "create"}
  BY DEF Init, Done, Idle
<1>2. Mode = "new"
  BY <1>1 DEF Mode, SomeAt, Init
<1>3. Link = "none" /\ Unread = <<>>
  BY DEF Init, Link, Unread
<1> QED BY <1>2, <1>3 DEF Promised!StreamInit

(* Steps before Close that leave the connection and its events alone.      *)
LEMMA SameLink ==
  ASSUME Inv, Inv', ~ Done, ~ Done', UNCHANGED <<sockets, wire>>
  PROVE  UNCHANGED <<Link, Unread>>
BY DEF Link, Unread, Open, Newest

LEMMA InformPromised ==
  ASSUME Inv, Inv', ~ Done, NEW r \in Slots, Inform(r)
  PROVE  Promised!Inform
<1>1. ~ Done' /\ UNCHANGED <<sockets, wire>>
  BY DEF Inform, Done, binance
<1>2. routines'[r].pc = "callback"
  BY GotoMoves DEF Inform, Inv, TypeOK, Steps
<1>3. Mode' = "informing"
  BY <1>1, <1>2, ModeIsNext DEF ModeFollows
<1>4. Mode \in {"new", "lost"}
  BY ModeIs DEF ModeFollows, Inv, ToldSo, Untold, Inform
<1>5. Link # "none"
  BY DEF Inv, ConnHeld, Inform, Link
<1> QED BY <1>1, <1>3, <1>4, <1>5, SameLink DEF Promised!Inform, Promised!Unsubscribed

LEMMA ListenPromised ==
  ASSUME Inv, Inv', ~ Done, NEW r \in Slots, Listen(r)
  PROVE  Promised!Listen
<1>1. ~ Done' /\ UNCHANGED <<sockets, wire>>
  BY DEF Listen, Done, binance
<1>2. routines'[r].pc = "loop"
  BY DEF Listen, Inv, TypeOK, Idle
<1>3. Mode = "informing" /\ Mode' = "reading"
  BY <1>1, <1>2, ModeIs, ModeIsNext DEF ModeFollows, Listen
<1> QED BY <1>1, <1>3, SameLink DEF Promised!Listen

(* Nothing is open when a connection is made. *)
LEMMA DialPromised ==
  ASSUME Inv, Inv', NEW r \in Slots, Dial(r)
  PROVE  Promised!Subscribe
<1>1. ~ Done /\ ~ Done' /\ wire' = <<>>
  BY DEF Dial, Done, Cancelled
<1>2. routines'[r].pc = "publish"
  BY DEF Dial, Inv, TypeOK, Routines
<1>3. Mode \in {"new", "lost"} /\ Mode' = Mode
  <2>1. told \in {"nothing", "disconnected"} /\ told' = told
    BY DEF Inv, ToldSo, Dial, stream
  <2>2. Mode = Untold /\ Mode' = Untold'
    BY <1>1, <1>2, ModeIs, ModeIsNext DEF ModeFollows, Dial
  <2> QED BY <2>1, <2>2 DEF Untold
<1>4. Link # "open"
  BY <1>1 DEF Inv, NoneOpen, Link, Dial
<1>5. Link' = "open"
  <2>1. listenKey \in Keys
    BY DEF Inv, KeyHeld, Dial
  <2>2. /\ sockets' \in Seq(Sockets) /\ Len(sockets) \in Nat
        /\ Len(sockets') = Len(sockets) + 1 /\ sockets'[Len(sockets')].state = "open"
    BY <2>1, SocketOpens DEF Inv, TypeOK, Sockets, Dial
  <2> QED BY <1>1, <2>2 DEF Link, Open, Newest
<1> QED BY <1>1, <1>3, <1>4, <1>5 DEF Promised!Subscribe, Promised!Unsubscribed, Unread

LEMMA ReceivePromised ==
  ASSUME Inv, Inv', ~ Done, NEW r \in Slots, Receive(r)
  PROVE  Promised!Deliver
<1>1. ~ Done' /\ UNCHANGED sockets /\ wire # <<>> /\ wire' = Tail(wire)
  BY DEF Receive, Done
<1>2. routines'[r].pc = "loop"
  BY GotoMoves DEF Receive, Inv, TypeOK, Steps
<1>3. Mode = "reading" /\ Mode' = "reading"
  BY <1>1, <1>2, ModeIs, ModeIsNext DEF ModeFollows, Receive
<1> QED BY <1>1, <1>3 DEF Promised!Deliver, Unread, Link, Open, Newest

(* A read fails on the newest connection, which is no longer open. *)
LEMMA BrokenUnderReader ==
  ASSUME Inv, ~ Done, NEW r \in Slots, Failed(r)
  PROVE  Link = "broken"
BY DEF Inv, ConnHeld, Failed, Link, Newest

LEMMA ReadFailsPromised ==
  ASSUME Inv, Inv', NEW r \in Slots, ReadFails(r)
  PROVE  Promised!Report
<1>1. ~ Done /\ ~ Done' /\ UNCHANGED <<sockets, wire>>
  BY DEF ReadFails, Done, binance
<1>2. routines'[r].pc = "respawn" /\ told' = "disconnected"
  BY GotoMoves DEF ReadFails, Inv, TypeOK, Steps
<1>3. Mode = "reading" /\ Mode' = "lost"
  BY <1>1, <1>2, ModeIs, ModeIsNext DEF ModeFollows, ReadFails, Failed, Untold
<1>4. Link = "broken"
  BY <1>1, BrokenUnderReader DEF ReadFails
<1> QED BY <1>1, <1>3, <1>4, SameLink DEF Promised!Report

LEMMA ReadEndsPromised ==
  ASSUME Inv, Inv', ~ Done, NEW r \in Slots, ReadEnds(r)
  PROVE  Promised!End
<1>1. ~ Done' /\ UNCHANGED <<sockets, wire, told>> /\ routines[r].pc = "reading"
  BY DEF ReadEnds, Failed, Done, binance, stream
<1>2. routines' \in [Slots -> Routines] /\ routines'[r].pc = "unwind"
      /\ \A s \in Slots : s # r => routines'[s] = routines[s]
  BY GotoMoves DEF ReadEnds, Inv, TypeOK, Steps
<1>3. \A s \in Slots : routines'[s].pc \in {"idle", "unwind"}
  BY <1>1, <1>2, OthersRest DEF Active
<1>4. Mode = "reading"
  BY <1>1, ModeIs DEF ModeFollows
<1>5. Mode' = "ended"
  <2>1. told' \in {"connected", "reconnected"}
    BY <1>1 DEF Inv, ToldSo
  <2> QED BY <1>1, <1>3, <2>1 DEF Mode, SomeAt
<1>6. Link = "broken"
  BY BrokenUnderReader DEF ReadEnds
<1> QED BY <1>1, <1>4, <1>5, <1>6, SameLink DEF Promised!End

(* What the stream does for itself is hidden from the handler. *)
LEMMA Hidden ==
  ASSUME Inv, Inv', ~ Done, NEW r \in Slots,
         \/ CreateListenKey(r) \/ CreateListenKeyFails(r) \/ DialFails(r) \/ Publish(r)
         \/ Read(r) \/ Respawn(r) \/ Unwind(r)
         \/ Check(r) \/ GiveUp(r) \/ Wake(r) \/ CloseOldKey(r)
  PROVE  UNCHANGED <<Mode, Link, Unread>>
<1>1. ~ Done' /\ UNCHANGED <<sockets, wire, told>>
  BY DEF CreateListenKey, CreateListenKeyFails, DialFails, Publish, Read, Respawn, Unwind,
     Check, GiveUp, Wake, CloseOldKey, stream, binance, Done
<1>2. routines \in [Slots -> Routines]
  BY DEF Inv, TypeOK
<1>3. ASSUME NEW s \in Slots
      PROVE  /\ routines'[s].pc = "callback" <=> routines[s].pc = "callback"
             /\ routines'[s].pc \in {"loop", "reading"} <=> routines[s].pc \in {"loop", "reading"}
  <2>1. CASE \/ CreateListenKey(r) \/ CreateListenKeyFails(r) \/ DialFails(r) \/ Publish(r)
             \/ Unwind(r) \/ Check(r) \/ GiveUp(r) \/ Wake(r) \/ CloseOldKey(r)
    BY <1>2, <1>3, <2>1 DEF CreateListenKey, CreateListenKeyFails, DialFails, ConnectFails,
       Publish, Unwind, Check, GiveUp, Wake, CloseOldKey, Goto, Exit, Idle, Routines
  <2>2. CASE Read(r)
    <3>1. conn # 0
      BY <2>2 DEF Inv, ConnHeld, TypeOK, Read
    <3> QED BY <1>2, <1>3, <2>2, <3>1 DEF Read, Routines
  <2>3. CASE Respawn(r)
    BY <1>2, <1>3, <2>3, FreeIsIdle DEF Respawn, Idle, Routines
  <2> QED BY <2>1, <2>2, <2>3
<1>4. Mode' = Mode
  BY <1>1, <1>3 DEF Mode, SomeAt
<1> QED BY <1>1, <1>4, SameLink

(* From Close on the handler is promised nothing. *)
LEMMA NothingAfterClose ==
  ASSUME Inv, Inv', Done, [Next]_vars
  PROVE  UNCHANGED <<Mode, Link, Unread>>
<1>1. Done'
  BY DEF Next, Step, vars, Done, stream, binance, StopGoes, CreateListenKey,
     CreateListenKeyFails, Dial, DialFails, Publish, Inform, Listen, Read, Receive, ReadEnds,
     ReadFails, Respawn, Unwind, Check, GiveUp, Wake, CloseOldKey, Refresh, KeepAliveEnds, Cancel, Stop,
     CloseDoneChan, CloseConn, CloseListenKey, CloseReports, Break, Emit, Expire
<1> QED BY <1>1, ModeIs, ModeIsNext DEF ModeFollows

(* Steps of Stop, of Binance and of keepAlive, before Close. *)
LEMMA OutsidePromised ==
  ASSUME Inv, Inv', ~ Done,
         \/ Refresh \/ KeepAliveEnds \/ Cancel \/ Stop \/ Break
         \/ (\E e \in Events : Emit(e)) \/ (\E k \in Keys : Expire(k))
  PROVE  Promised!StreamNext \/ UNCHANGED <<Mode, Link, Unread>>
<1>1. CASE CloseDoneChan
  <2>1. Done'
    BY <1>1 DEF CloseDoneChan, StopGoes, Done
  <2>2. Mode' = "closed" /\ Link' = "none" /\ Unread' = <<>>
    BY <2>1, ModeIsNext DEF ModeFollows
  <2>3. Mode # "closed"
    BY DEF Mode
  <2> QED BY <2>2, <2>3 DEF Promised!Close, Promised!StreamNext
<1>2. CASE Stop /\ ~ CloseDoneChan
  BY <1>2 DEF Stop, CloseConn, CloseListenKey, CloseReports, StopGoes, Done
<1>3. CASE Break \/ (\E e \in Events : Emit(e)) \/ (\E k \in Keys : Expire(k)) \/ Refresh \/ KeepAliveEnds \/ Cancel
  <2>1. ~ Done' /\ UNCHANGED <<routines, told>>
    BY <1>3 DEF Break, Emit, Expire, Refresh, KeepAliveEnds, Cancel, StopGoes, Done, stream
  <2>2. Mode' = Mode
    BY <2>1 DEF Mode, SomeAt
  <2>3. CASE Break
    <3>1. sockets \in Seq(Sockets)
      BY DEF Inv, TypeOK, Sockets
    <3>2. /\ Len(sockets') = Len(sockets) /\ Len(sockets) > 0
          /\ sockets'[Len(sockets)].state # "open"
          /\ wire' = <<>>
      <4>1. PICK how \in {"normal", "abnormal"} : sockets' = [sockets EXCEPT ![Len(sockets)].state = how]
        BY <2>3, ClosingsAssumption DEF Break, Newest
      <4>2. Len(sockets) \in DOMAIN sockets /\ Len(sockets) > 0 /\ wire' = <<>>
        BY <2>3, <3>1 DEF Break, Open, Newest
      <4>3. Len(sockets') = Len(sockets) /\ sockets'[Len(sockets)].state = how
        BY <3>1, <4>1, <4>2, SocketEnds
      <4> QED BY <4>2, <4>3
    <3>3. Link = "open" /\ Link' = "broken"
      <4>1. sockets # <<>> /\ sockets' # <<>>
        BY <3>1, <3>2, OutsideInv DEF Inv, TypeOK
      <4>2. Open(Newest) /\ ~ Open(Newest)'
        BY <2>3, <3>2 DEF Break, Open, Newest
      <4> QED BY <2>1, <4>1, <4>2 DEF Link
    <3> QED BY <2>1, <2>2, <3>2, <3>3 DEF Promised!Break, Promised!StreamNext, Unread
  <2>4. ASSUME NEW e \in Events, Emit(e) PROVE Promised!StreamNext
    <3>1. Link = "open" /\ Link' = Link
      BY <2>1, <2>4 DEF Emit, Link, Open, Newest
    <3>2. Len(Unread) < MaxWire /\ Unread' = Append(Unread, e)
      BY <2>1, <2>4 DEF Emit, Unread
    <3> QED BY <2>2, <3>1, <3>2 DEF Promised!Emit, Promised!StreamNext
  <2>5. CASE Refresh \/ KeepAliveEnds \/ Cancel \/ (\E k \in Keys : Expire(k))
    <3>1. UNCHANGED <<sockets, wire>>
      BY <2>5 DEF Refresh, KeepAliveEnds, Cancel, Expire, binance
    <3> QED BY <2>1, <2>2, <3>1, SameLink
  <2> QED BY <1>3, <2>3, <2>4, <2>5
<1> QED BY <1>1, <1>2, <1>3 DEF Stop

(* ImplementsEventStream: every behaviour of the goroutines, listen keys,  *)
(* back-offs and Close is one the handler was promised: one subscription   *)
(* at a time, announced before its events and reported when it is lost.    *)
THEOREM StreamKeepsPromise == Spec => ImplementsEventStream
<1>1. Init => Promised!StreamInit
  BY InitPromised
<1>2. Inv /\ Inv' /\ [Next]_vars => [Promised!StreamNext]_(Promised!streamVars)
  <2> SUFFICES ASSUME Inv, Inv', [Next]_vars
               PROVE  Promised!StreamNext \/ UNCHANGED <<Mode, Link, Unread>>
    BY DEF Promised!streamVars
  <2>1. CASE Done
    BY <2>1, NothingAfterClose
  <2>2. CASE UNCHANGED vars
    BY <2>2 DEF vars, Mode, SomeAt, Link, Unread, Done, Open, Newest
  <2>3. ASSUME ~ Done, NEW r \in Slots, Step(r)
        PROVE  Promised!StreamNext \/ UNCHANGED <<Mode, Link, Unread>>
    <3>1. CASE \/ Dial(r) \/ Inform(r) \/ Listen(r) \/ Receive(r) \/ ReadEnds(r) \/ ReadFails(r)
      BY <2>3, <3>1, DialPromised, InformPromised, ListenPromised, ReceivePromised,
         ReadEndsPromised, ReadFailsPromised DEF Promised!StreamNext
    <3>2. CASE \/ CreateListenKey(r) \/ CreateListenKeyFails(r) \/ DialFails(r) \/ Publish(r)
               \/ Read(r) \/ Respawn(r) \/ Unwind(r)
               \/ Check(r) \/ GiveUp(r) \/ Wake(r) \/ CloseOldKey(r)
      BY <2>3, <3>2, Hidden
    <3> QED BY <2>3, <3>1, <3>2 DEF Step
  <2>4. CASE ~ Done /\ \/ Refresh \/ KeepAliveEnds \/ Cancel \/ Stop \/ Break
                       \/ (\E e \in Events : Emit(e)) \/ (\E k \in Keys : Expire(k))
    BY <2>4, OutsidePromised
  <2> QED BY <2>1, <2>2, <2>3, <2>4 DEF Next
<1> QED BY <1>1, <1>2, Invariance, PTL DEF Spec, ImplementsEventStream, Promised!StreamSpec

=============================================================================
