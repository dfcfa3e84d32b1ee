---------------------------- MODULE UserDataStream ----------------------------
(***************************************************************************)
(* internal/binance/websocket.go: the goroutines that hold the user data   *)
(* stream open.  connect hands the connection to readLoop, readLoop starts *)
(* reconnectLoop when it breaks, reconnectLoop calls connect again; every  *)
(* connect adds a keepAlive.  Detector.Stop cancels the context and then   *)
(* calls Close, from a goroutine of its own, at any moment of that cycle.  *)
(*                                                                         *)
(* A step is a critical section, an HTTP call or a callback, with the      *)
(* local work around it.  How long a back-off lasts is left open.  Binance *)
(* and the network are external: keys it has issued, connections it serves *)
(* and the events on their way.                                            *)
(***************************************************************************)
EXTENDS Naturals, Sequences

CONSTANTS
  Slots,     \* room for goroutines that connect, read or reconnect
  Keys,      \* listen keys Binance may issue, used again once they are dead
  Events,    \* events of the account
  Closings,  \* how Binance or the network may end a connection
  MaxConns,  \* bound: connections opened
  MaxWire    \* bound: events sent and not yet read

NoKey == "none"

ASSUME KeysAssumption == NoKey \notin Keys
ASSUME ClosingsAssumption == Closings \subseteq {"normal", "abnormal"}
ASSUME StreamBoundsAssumption == MaxConns \in Nat /\ MaxWire \in Nat

VARIABLES
  routines,      \* slot -> goroutine: where it is, the connection it uses
  listenKey,     \* s.listenKey, NoKey when it is empty
  conn,          \* s.conn as a position in sockets, 0 for nil
  connected,     \* s.connected
  wasConnected,  \* s.wasConnected
  told,          \* the last thing the handler was told of the connection
  keepAlives,    \* keepAlive goroutines alive
  stopping,      \* how far Detector.Stop has come
  sockets,       \* Binance: every connection opened, its key and its state
  wire,          \* Binance: events on the newest connection, not yet read
  liveKeys,      \* Binance: keys issued and neither closed nor expired
  lapsed         \* Binance: did the last refresh of s.listenKey fail?

vars == <<routines, listenKey, conn, connected, wasConnected, told,
          keepAlives, stopping, sockets, wire, liveKeys, lapsed>>

stream == <<listenKey, conn, connected, wasConnected, told, keepAlives>>
binance == <<sockets, wire, liveKeys, lapsed>>

-----------------------------------------------------------------------------
(* Types and views *)

Steps == {"idle", "create", "dial", "publish", "inform", "callback", "loop",
          "reading", "respawn", "unwind", "check", "wait", "closeOld"}

Routines == [pc : Steps, conn : Nat, again : BOOLEAN]

Idle == [pc |-> "idle", conn |-> 0, again |-> FALSE]

(* Goroutines that have or seek the connection; one that is unwinding has  *)
(* left it and only runs its deferred function.                            *)
Active(r) == routines[r].pc \notin {"idle", "unwind"}

(* ctx.Done() and doneChan are readable from these points of Stop on. *)
Cancelled == stopping # "running"
Done == stopping \notin {"running", "cancelled"}

Open(c) == c \in DOMAIN sockets /\ sockets[c].state = "open"

Goto(r, step) == routines' = [routines EXCEPT ![r].pc = step]

Exit(r) == routines' = [routines EXCEPT ![r] = Idle]

(* A go statement gives the new goroutine some free slot. *)
HasRoom == \E s \in Slots : routines[s].pc = "idle"
Free == CHOOSE s \in Slots : routines[s].pc = "idle"

-----------------------------------------------------------------------------
(* connect *)

(* Seeded faults, here and below: the form a regression could give to the  *)
(* definition that follows.  They are no part of the specification.        *)
ConnectFailsForGood(r) == Exit(r)

(* A failed connect ends Start, and is tried again by reconnectLoop. *)
ConnectFails(r) == IF routines[r].again THEN Goto(r, "check") ELSE Exit(r)

CreateKeyUnstored(r) ==
  /\ routines[r].pc = "create"
  /\ \E k \in Keys \ liveKeys : liveKeys' = liveKeys \cup {k}
  /\ lapsed' = FALSE
  /\ Goto(r, "dial")
  /\ UNCHANGED <<stream, stopping, sockets, wire>>

CreateListenKey(r) ==
  /\ routines[r].pc = "create"
  /\ \E k \in Keys \ liveKeys :
       /\ liveKeys' = liveKeys \cup {k}
       /\ listenKey' = k
  /\ lapsed' = FALSE
  /\ Goto(r, "dial")
  /\ UNCHANGED <<conn, connected, wasConnected, told, keepAlives, stopping,
                 sockets, wire>>

CreateListenKeyFails(r) ==
  /\ routines[r].pc = "create"
  /\ ConnectFails(r)
  /\ UNCHANGED <<stream, stopping, binance>>

(* DialContext: it cannot succeed once the context is cancelled. *)
Dial(r) ==
  /\ routines[r].pc = "dial"
  /\ ~ Cancelled
  /\ Len(sockets) < MaxConns
  /\ sockets' = Append(sockets, [key |-> listenKey, state |-> "open"])
  /\ wire' = <<>>
  /\ routines' = [routines EXCEPT ![r].pc = "publish", ![r].conn = Len(sockets) + 1]
  /\ UNCHANGED <<stream, stopping, liveKeys, lapsed>>

DialFails(r) ==
  /\ routines[r].pc = "dial"
  /\ ConnectFails(r)
  /\ UNCHANGED <<stream, stopping, binance>>

(* The critical section. *)
Publish(r) ==
  /\ routines[r].pc = "publish"
  /\ conn' = routines[r].conn
  /\ connected' = TRUE
  /\ wasConnected' = TRUE
  /\ routines' = [routines EXCEPT ![r].pc = "inform", ![r].again = @ \/ wasConnected]
  /\ UNCHANGED <<listenKey, told, keepAlives, stopping, binance>>

(* OnConnected or OnReconnected begins; it may take long. *)
Inform(r) ==
  /\ routines[r].pc = "inform"
  /\ told' = IF routines[r].again THEN "reconnected" ELSE "connected"
  /\ Goto(r, "callback")
  /\ UNCHANGED <<listenKey, conn, connected, wasConnected, keepAlives, stopping, binance>>

(* The loop goes on after it has reconnected. *)
ListenAndLoop(r) ==
  /\ routines[r].pc = "callback"
  /\ HasRoom
  /\ routines' = [routines EXCEPT ![r].pc = "check", ![Free] = [Idle EXCEPT !.pc = "loop"]]
  /\ keepAlives' = keepAlives + 1
  /\ UNCHANGED <<listenKey, conn, connected, wasConnected, told, stopping, binance>>

(* go readLoop, go keepAlive, return: the connecting goroutine ends, so    *)
(* readLoop takes over its slot.                                           *)
Listen(r) ==
  /\ routines[r].pc = "callback"
  /\ routines' = [routines EXCEPT ![r] = [Idle EXCEPT !.pc = "loop"]]
  /\ keepAlives' = keepAlives + 1
  /\ UNCHANGED <<listenKey, conn, connected, wasConnected, told, stopping, binance>>

-----------------------------------------------------------------------------
(* readLoop *)

ReadUnchecked(r) ==
  /\ routines[r].pc = "loop"
  /\ routines' = [routines EXCEPT ![r].pc = "reading", ![r].conn = conn]
  /\ UNCHANGED <<stream, stopping, binance>>

Read(r) ==
  /\ routines[r].pc = "loop"
  /\ IF Done \/ conn = 0
     THEN Goto(r, "unwind")
     ELSE routines' = [routines EXCEPT ![r].pc = "reading", ![r].conn = conn]
  /\ UNCHANGED <<stream, stopping, binance>>

(* ReadMessage returns a message; a balance update is handed on, any other *)
(* one makes no difference.                                                *)
Receive(r) ==
  /\ routines[r].pc = "reading"
  /\ Open(routines[r].conn)
  /\ wire # <<>>
  /\ wire' = Tail(wire)
  /\ Goto(r, "loop")
  /\ UNCHANGED <<stream, stopping, sockets, liveKeys, lapsed>>

Failed(r) == routines[r].pc = "reading" /\ ~ Open(routines[r].conn)

ClosedNormally(r) == sockets[routines[r].conn].state = "normal"

ReadEndsAtOnce(r) ==
  /\ Failed(r)
  /\ ClosedNormally(r) \/ Done
  /\ Exit(r)
  /\ UNCHANGED <<stream, stopping, binance>>

ReadEnds(r) ==
  /\ Failed(r)
  /\ ClosedNormally(r) \/ Done
  /\ Goto(r, "unwind")
  /\ UNCHANGED <<stream, stopping, binance>>

ReadFailsUntold(r) ==
  /\ Failed(r)
  /\ ~ ClosedNormally(r) /\ ~ Done
  /\ Goto(r, "respawn")
  /\ UNCHANGED <<stream, stopping, binance>>

(* OnError, OnDisconnected *)
ReadFails(r) ==
  /\ Failed(r)
  /\ ~ ClosedNormally(r) /\ ~ Done
  /\ told' = "disconnected"
  /\ Goto(r, "respawn")
  /\ UNCHANGED <<listenKey, conn, connected, wasConnected, keepAlives, stopping, binance>>

(* go reconnectLoop *)
Respawn(r) ==
  /\ routines[r].pc = "respawn"
  /\ HasRoom
  /\ routines' = [routines EXCEPT ![r].pc = "unwind",
                                  ![Free] = [Idle EXCEPT !.pc = "check", !.again = TRUE]]
  /\ UNCHANGED <<stream, stopping, binance>>

(* The deferred function.  reconnectLoop is running by then. *)
Unwind(r) ==
  /\ routines[r].pc = "unwind"
  /\ connected' = FALSE
  /\ Exit(r)
  /\ UNCHANGED <<listenKey, conn, wasConnected, told, keepAlives, stopping, binance>>

-----------------------------------------------------------------------------
(* reconnectLoop *)

Check(r) ==
  /\ routines[r].pc = "check"
  /\ IF Cancelled THEN Exit(r) ELSE Goto(r, "wait")
  /\ UNCHANGED <<stream, stopping, binance>>

(* The select takes any case that is ready. *)
GiveUp(r) ==
  /\ routines[r].pc = "wait"
  /\ Cancelled
  /\ Exit(r)
  /\ UNCHANGED <<stream, stopping, binance>>

Wake(r) ==
  /\ routines[r].pc = "wait"
  /\ Goto(r, "closeOld")
  /\ UNCHANGED <<stream, stopping, binance>>

(* CloseListenKey, whose error is ignored: the key is then left to expire. *)
CloseKey ==
  /\ listenKey # NoKey
  /\ liveKeys' \in {liveKeys \ {listenKey}, liveKeys}

CloseOldKey(r) ==
  /\ routines[r].pc = "closeOld"
  /\ \/ CloseKey /\ listenKey' = NoKey
     \/ listenKey = NoKey /\ UNCHANGED <<listenKey, liveKeys>>
  /\ Goto(r, "create")
  /\ UNCHANGED <<conn, connected, wasConnected, told, keepAlives, stopping, sockets, wire, lapsed>>

-----------------------------------------------------------------------------
(* keepAlive *)

RefreshedFirst == IF sockets = <<>> THEN listenKey ELSE sockets[1].key

(* Every refresh is of whatever s.listenKey is at that moment.  It comes   *)
(* before the key would expire; what the ping finds is only logged.        *)
Refreshed == listenKey

(* RefreshListenKey succeeds only for a live key and may fail for any.  A  *)
(* failure is logged, and the next tick tries again.                       *)
Refresh ==
  /\ keepAlives > 0
  /\ Refreshed # NoKey
  /\ lapsed' \in {TRUE, Refreshed \notin liveKeys}
  /\ UNCHANGED <<routines, stream, stopping, sockets, wire, liveKeys>>

KeepAliveEnds ==
  /\ keepAlives > 0
  /\ Cancelled
  /\ keepAlives' = keepAlives - 1
  /\ UNCHANGED <<routines, listenKey, conn, connected, wasConnected, told, stopping, binance>>

-----------------------------------------------------------------------------
(* Detector.Stop: cancel, wait for processLoop, Close *)

StopGoes(from, to) == stopping = from /\ stopping' = to

(* Start has returned with success: Stop is not called before. *)
Started == keepAlives > 0

Cancel ==
  /\ Started
  /\ StopGoes("running", "cancelled")
  /\ UNCHANGED <<routines, stream, binance>>

CloseDoneChan ==
  /\ StopGoes("cancelled", "done")
  /\ UNCHANGED <<routines, stream, binance>>

(* The connection is closed under the reader's feet. *)
CloseConn ==
  /\ StopGoes("done", "connClosed")
  /\ IF conn = 0
     THEN UNCHANGED <<connected, sockets, wire>>
     ELSE /\ connected' = FALSE
          /\ sockets' = IF Open(conn) THEN [sockets EXCEPT ![conn].state = "abnormal"] ELSE sockets
          /\ wire' = IF conn = Len(sockets) THEN <<>> ELSE wire
  /\ UNCHANGED <<routines, listenKey, conn, wasConnected, told, keepAlives, liveKeys, lapsed>>

CloseListenKey ==
  /\ StopGoes("connClosed", "keyClosed")
  /\ \/ CloseKey
     \/ listenKey = NoKey /\ UNCHANGED liveKeys
  /\ UNCHANGED <<routines, stream, sockets, wire, lapsed>>

CloseReports ==
  /\ StopGoes("keyClosed", "closed")
  /\ told' = "disconnected"
  /\ UNCHANGED <<routines, listenKey, conn, connected, wasConnected, keepAlives, binance>>

-----------------------------------------------------------------------------
(* Binance and the network *)

Newest == Len(sockets)

(* The network is stable in the end: the last connection stays. *)
Break ==
  /\ Open(Newest)
  /\ Newest < MaxConns
  /\ \E how \in Closings : sockets' = [sockets EXCEPT ![Newest].state = how]
  /\ wire' = <<>>
  /\ UNCHANGED <<routines, stream, stopping, liveKeys, lapsed>>

(* Events come only while the connection's key lives. *)
Emit(e) ==
  /\ Open(Newest)
  /\ sockets[Newest].key \in liveKeys
  /\ Len(wire) < MaxWire
  /\ wire' = Append(wire, e)
  /\ UNCHANGED <<routines, stream, stopping, sockets, liveKeys, lapsed>>

(* A key that nobody refreshes, or not with success. *)
Expire(k) ==
  /\ k \in liveKeys
  /\ k # Refreshed \/ lapsed
  /\ liveKeys' = liveKeys \ {k}
  /\ UNCHANGED <<routines, stream, stopping, sockets, wire, lapsed>>

-----------------------------------------------------------------------------

First == CHOOSE s \in Slots : TRUE

(* Start has called Connect. *)
Init ==
  /\ routines = [s \in Slots |-> IF s = First THEN [Idle EXCEPT !.pc = "create"] ELSE Idle]
  /\ listenKey = NoKey
  /\ conn = 0
  /\ connected = FALSE /\ wasConnected = FALSE
  /\ told = "nothing"
  /\ keepAlives = 0
  /\ stopping = "running"
  /\ sockets = <<>> /\ wire = <<>> /\ liveKeys = {} /\ lapsed = FALSE

Step(r) ==
  \/ CreateListenKey(r) \/ CreateListenKeyFails(r) \/ Dial(r) \/ DialFails(r)
  \/ Publish(r) \/ Inform(r) \/ Listen(r)
  \/ Read(r) \/ Receive(r) \/ ReadEnds(r) \/ ReadFails(r) \/ Respawn(r) \/ Unwind(r)
  \/ Check(r) \/ GiveUp(r) \/ Wake(r) \/ CloseOldKey(r)

Stop == CloseDoneChan \/ CloseConn \/ CloseListenKey \/ CloseReports

Next ==
  \/ \E r \in Slots : Step(r)
  \/ Refresh \/ KeepAliveEnds \/ Cancel \/ Stop
  \/ Break
  \/ \E e \in Events : Emit(e)
  \/ \E k \in Keys : Expire(k)

Spec == Init /\ [][Next]_vars

(* Goroutines run, calls return, and Binance can be reached in the end:    *)
(* one of the attempts to get a key, and to dial, succeeds.  Nothing makes *)
(* Stop begin or a connection break.                                       *)
Fairness ==
  /\ \A r \in Slots : WF_vars(Step(r))
  /\ SF_vars(\E r \in Slots : CreateListenKey(r))
  /\ SF_vars(\E r \in Slots : Dial(r))
  /\ WF_vars(KeepAliveEnds) /\ WF_vars(Stop)
  /\ WF_vars(\E k \in Keys : Expire(k))

FairSpec == Spec /\ Fairness

-----------------------------------------------------------------------------

(* Every variable has its type. *)
TypeOK ==
  /\ routines \in [Slots -> Routines]
  /\ listenKey \in Keys \cup {NoKey}
  /\ conn \in 0..Len(sockets)
  /\ connected \in BOOLEAN /\ wasConnected \in BOOLEAN
  /\ told \in {"nothing", "connected", "reconnected", "disconnected"}
  /\ keepAlives \in Nat
  /\ stopping \in {"running", "cancelled", "done", "connClosed", "keyClosed", "closed"}
  /\ sockets \in Seq([key : Keys, state : {"open", "normal", "abnormal"}])
  /\ wire \in Seq(Events)
  /\ liveKeys \subseteq Keys /\ lapsed \in BOOLEAN

(* Across any sequence of breaks, reconnections and a Close in between, at *)
(* most one goroutine connects, reads or waits to reconnect: the           *)
(* WebSocket allows one reader, and OnReconnected's polls never overlap.   *)
OneReader == \A r, s \in Slots : Active(r) /\ Active(s) => r = s

(* IsConnected never says yes of a stream that nobody reads or is about to *)
(* read, whatever order the deferred reset of one readLoop and the connect *)
(* of the next come in.                                                    *)
ConnectedHasReader ==
  connected => \E r \in Slots :
    routines[r].pc \in {"inform", "callback", "loop", "reading", "respawn", "unwind"}

(* The key of a connection that is being read is neither closed nor left   *)
(* to expire by the stream itself before Close: reconnectLoop closes the   *)
(* previous key and the keepAlives refresh the one in use.  Only where its *)
(* last refresh failed may it be gone.                                     *)
ReadsOnLiveKey ==
  \A r \in Slots :
    /\ ~ Done
    /\ routines[r].pc = "reading"
    => sockets[routines[r].conn].key \in liveKeys \/ lapsed

(* The handler sees the protocol EventStream promises. *)
SomeAt(steps) == \E r \in Slots : routines[r].pc \in steps

Mode == IF Done THEN "closed"
        ELSE IF SomeAt({"callback"}) THEN "informing"
        ELSE IF SomeAt({"loop", "reading"}) THEN "reading"
        ELSE IF told = "nothing" THEN "new"
        ELSE IF told = "disconnected" THEN "lost"
        ELSE "ended"

Link == IF Done \/ sockets = <<>> THEN "none"
        ELSE IF Open(Newest) THEN "open" ELSE "broken"

Unread == IF Done THEN <<>> ELSE wire

Promised == INSTANCE EventStream WITH mode <- Mode, link <- Link, wire <- Unread

ImplementsEventStream == Promised!StreamSpec

Ended(how) == keepAlives > 0 /\ sockets[Newest].state = how

Listening == \E r \in Slots : routines[r].pc = "reading" /\ Open(routines[r].conn)

(* While nobody stops it, a stream whose connection broke is read again,   *)
(* through any number of failed attempts and further breaks, unless Binance *)
(* closes one of the connections normally.                                 *)
BrokenConnectionRecovers ==
  Ended("abnormal") ~> Listening \/ Cancelled \/ Ended("normal")

(* "WebSocket disconnection: retry with exponential backoff" (DESIGN.md,   *)
(* Transient Errors), however the connection was lost.                     *)
LostConnectionRecovers ==
  keepAlives > 0 /\ ~ Open(Newest) ~> Listening \/ Cancelled

(* After Close no goroutine of the stream is left, whatever it was doing.  *)
StopQuiesces ==
  stopping = "closed" ~> keepAlives = 0 /\ \A r \in Slots : routines[r].pc = "idle"

=============================================================================
