----------------------------- MODULE EventStream -----------------------------
(***************************************************************************)
(* What the user data stream promises the handler of its events            *)
(* (EventHandler in internal/binance/websocket.go): one subscription at a  *)
(* time, announced before its first event and reported when it is lost;    *)
(* the events of a subscription in order, each once; nothing while the     *)
(* handler works on the announcement.  Listen keys, goroutines and         *)
(* back-off are not said here.                                             *)
(***************************************************************************)
EXTENDS Naturals, Sequences

CONSTANTS
  Events,  \* what Binance may report
  MaxWire  \* bound: events sent and not yet read

VARIABLES
  mode,  \* what the handler has been told, and whether it is being called
  link,  \* the subscription at Binance
  wire   \* its events that were not read yet

streamVars == <<mode, link, wire>>

Modes == {"new", "informing", "reading", "lost", "ended", "closed"}

StreamTypeOK ==
  /\ mode \in Modes
  /\ link \in {"none", "open", "broken"}
  /\ wire \in Seq(Events)

StreamInit == mode = "new" /\ link = "none" /\ wire = <<>>

Unsubscribed == mode \in {"new", "lost"}

Subscribe ==
  /\ Unsubscribed
  /\ link # "open"
  /\ link' = "open"
  /\ wire' = <<>>
  /\ UNCHANGED mode

(* OnConnected the first time, OnReconnected later; the subscription may   *)
(* have broken again by then.                                              *)
Inform ==
  /\ Unsubscribed
  /\ link # "none"
  /\ mode' = "informing"
  /\ UNCHANGED <<link, wire>>

(* The handler returned. *)
Listen == mode = "informing" /\ mode' = "reading" /\ UNCHANGED <<link, wire>>

Emit(e) ==
  /\ link = "open"
  /\ Len(wire) < MaxWire
  /\ wire' = Append(wire, e)
  /\ UNCHANGED <<mode, link>>

(* OnBalanceUpdate(Head(wire)) *)
Deliver ==
  /\ mode = "reading"
  /\ wire # <<>>
  /\ wire' = Tail(wire)
  /\ UNCHANGED <<mode, link>>

Break ==
  /\ link = "open"
  /\ link' = "broken"
  /\ wire' = <<>>
  /\ UNCHANGED mode

(* OnDisconnected *)
Report ==
  /\ mode = "reading" /\ link = "broken"
  /\ mode' = "lost"
  /\ UNCHANGED <<link, wire>>

(* The server closed the connection normally: nobody is told. *)
End ==
  /\ mode = "reading" /\ link = "broken"
  /\ mode' = "ended"
  /\ UNCHANGED <<link, wire>>

(* From the moment Close has closed doneChan nothing is promised. *)
Close ==
  /\ mode # "closed"
  /\ mode' = "closed" /\ link' = "none" /\ wire' = <<>>

StreamNext ==
  \/ Subscribe \/ Inform \/ Listen
  \/ \E e \in Events : Emit(e)
  \/ Deliver \/ Break \/ Report \/ End \/ Close

StreamSpec == StreamInit /\ [][StreamNext]_streamVars

=============================================================================
