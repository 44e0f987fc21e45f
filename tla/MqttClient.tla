----------------------------- MODULE MqttClient -----------------------------
(***************************************************************************)
(* The MQTT client of src/mqtt/Client.ts with the ClientSource that feeds  *)
(* its readable stream.  Five kinds of actor share the client object:      *)
(*                                                                         *)
(*   - the message handler (#handleMessages): connect, handshake, dispatch *)
(*     packets, tear down, connect again;                                  *)
(*   - the ping interval it arms for a session;                            *)
(*   - callers of subscribe() and unsubscribe(), which differ only in the  *)
(*     packet they send;                                                   *)
(*   - callers of close(), and of open() between and beside them;          *)
(*   - the transport and a broker that obeys MQTT (external).              *)
(*                                                                         *)
(* JavaScript runs one actor at a time up to its next await, so an action  *)
(* is the code between two awaits.  What a read returns is chosen when it  *)
(* is read: a reply may be read while its request is unanswered.  Packets  *)
(* that are only forwarded to the stream (PUBLISH, AUTH, ...) change no    *)
(* state of the client and are left out, as are publish(), auth() and the  *)
(* client identifier a broker assigns.                                     *)
(***************************************************************************)
EXTENDS Integers, FiniteSets

CONSTANTS
  Calls,          \* subscribe()/unsubscribe() callers; each may call again
  Closers,        \* close() callers; each may call again
  None,           \* an undefined entry of #pendingReplies
  MaxId,          \* largest packet identifier (65535 in the code)
  KeepAlive,      \* connectPacket.keepalive is set
  ServerLimits,   \* maximum_packet_size values a broker may announce
  OpensAmid       \* where close() calls may be when the program calls open()

\* The awaits of close() an open() may fall into.  Those of one promise run on
\* together when it is resolved, so that none falls between them.
OpenPoints == {"writing", "lateWrite", "failing", "passing"}

ASSUME ConstantsAssumption ==
  /\ None \notin Calls
  /\ MaxId \in Nat \ {0}
  /\ KeepAlive \in BOOLEAN
  /\ ServerLimits \subseteq {"default", "tight", "excess"}
  /\ OpensAmid \subseteq OpenPoints

VARIABLES
  active,      \* #active: the handler goes on after its current connection
  handler,     \* #messageHandlerPromise is defined
  hpc,         \* the await the handler is suspended at
  con,         \* the local `con` of the handler, with its reader and writer
  writable,    \* #writable is defined
  sizeLimit,   \* #writer.maximumPacketSize: "tight" is below CONNECT's size
  interval,    \* #pingIntervalId: "zero" is an interval for keep_alive 0
  missed,      \* ping ticks since the last PINGRESP
  pingWrites,  \* PINGREQ writes on con that have not settled
  pending,     \* #pendingReplies without its reserved entry 0
  callPc,      \* progress of each subscribe() call
  lane,        \* where a call's request is: nowhere, unestablished con, session
  reply,       \* the promise of #getPacketIdentifierHandler, per call
  requests,    \* requests sent on con that the broker has not answered
  closePc,     \* progress of each close() call
  stream       \* #source: closed, and sessions announced minus ended

handlerVars == <<active, handler, hpc>>
pingVars    == <<interval, missed, pingWrites>>
callVars    == <<pending, callPc, lane, reply, requests>>
vars == <<handlerVars, con, writable, sizeLimit, pingVars, callVars, closePc,
          stream>>

Ids == 1..MaxId
Requests == [id : Ids, call : Calls]

\* Bound of the model: PINGREQ writes in flight at once.
MaxPingWrites == 2

\* Where the handler awaits con.writable.close().
Closings == {"refuseClose", "noAckClose", "failClose", "teardownClose"}
\* Where it has no connection: connectLowLevel, delay, returned.
Unconnected == {"connecting", "delay", "done"}
HandlerPcs ==
  Closings \union Unconnected \union {"writeConnect", "handshake", "dispatch"}

\* Where a close() call is: not called (or it has returned), at the write of a
\* live writer, the same when the handler has left that connection, at the
\* rejected write of a released writer, at a promise that is pending, or at one
\* that is settled (or at undefined).
ClosePcs == {"idle", "writing", "lateWrite", "failing", "awaiting", "passing"}

Connection ==
  [link : {"none", "up", "eof", "broken"}, open : BOOLEAN, wlock : BOOLEAN,
   rlock : BOOLEAN, disc : BOOLEAN, pinged : BOOLEAN]

HandlerTypeOK ==
  /\ active \in BOOLEAN
  /\ handler \in BOOLEAN
  /\ hpc \in HandlerPcs
  /\ con \in Connection
  /\ writable \in BOOLEAN
  /\ sizeLimit \in {"default", "tight"}
  /\ interval \in {"off", "on", "zero"}
  /\ missed \in 0..2
  /\ pingWrites \in 0..MaxPingWrites
  /\ closePc \in [Closers -> ClosePcs]
  /\ stream \in [closed : BOOLEAN, sessions : -1..1]

CallsTypeOK ==
  /\ pending \in [Ids -> Calls \union {None}]
  /\ callPc \in [Calls -> {"idle", "writing", "waiting", "threw"}]
  /\ lane \in [Calls -> {"none", "pre", "session"}]
  /\ reply \in [Calls -> {"none", "pending", "resolved", "rejected"}]
  /\ requests \subseteq Requests

\* Every variable keeps its type; in particular at most two ticks of the ping
\* go without a PINGRESP (Client.ts:529-534), and a stream that is replaced in
\* the middle of a session is at most one CONNACK short (Client.ts:370-374,628).
TypeOK == HandlerTypeOK /\ CallsTypeOK

-----------------------------------------------------------------------------
(***************************************************************************)
(* The connection.                                                         *)
(***************************************************************************)

NoConnection ==
  [link |-> "none", open |-> FALSE, wlock |-> FALSE, rlock |-> FALSE,
   disc |-> FALSE, pinged |-> FALSE]

\* connectLowLevel resolved, and the handler took the writer and the reader.
FreshConnection ==
  [link |-> "up", open |-> TRUE, wlock |-> TRUE, rlock |-> TRUE,
   disc |-> FALSE, pinged |-> FALSE]

\* (Mutant of Released: con.writable.close() is forgotten.)
ReleasedOnly(c) == [c EXCEPT !.wlock = FALSE, !.rlock = FALSE]

\* Both locks are given back and con.writable.close() is called.
Released(c) == [c EXCEPT !.wlock = FALSE, !.rlock = FALSE, !.open = FALSE]

\* The handler drops `con` when it leaves the loop body.
Dropped(c) == [c EXCEPT !.link = "none", !.disc = FALSE, !.pinged = FALSE]

\* A write on con settles before the promise of con.writable.close(), unless
\* the ping had closed con already: then that promise is rejected at once.
Drained ==
  \/ con.pinged
  \/ /\ pingWrites = 0
     /\ \A k \in Closers : closePc[k] # "writing"
     /\ \A c \in Calls : callPc[c] = "writing" => lane[c] = "none"

\* con.writable.close() is rejected on a connection that is lost.
CloseRejected == con.link # "up"

\* write() may fail on a connection that is lost or was closed by the ping.
WriteMayFail == con.link # "up" \/ ~con.open

\* The peer ends the connection in order, or the connection fails.
LinkEnds ==
  /\ con.link = "up"
  /\ \E l \in {"eof", "broken"} : con' = [con EXCEPT !.link = l]
  /\ UNCHANGED <<handlerVars, writable, sizeLimit, pingVars, callVars, closePc,
                 stream>>

-----------------------------------------------------------------------------
(***************************************************************************)
(* The table of pending replies.                                           *)
(***************************************************************************)

\* (Mutant of FreeIds: no check against the largest identifier.)
WrappingIds == LET free == {i \in Ids : pending[i] = None}
               IN  IF free = {} THEN {1} ELSE free
FreeIds == {i \in Ids : pending[i] = None}
LeastFree == CHOOSE i \in FreeIds : \A j \in FreeIds : i <= j
HoldsSlot(c) == \E i \in Ids : pending[i] = c

\* (Mutants of ClearPending: the table is not replaced; nothing is rejected.)
RejectWithoutClearing ==
  /\ pending' = pending
  /\ reply' = [c \in Calls |-> IF HoldsSlot(c) THEN "rejected" ELSE reply[c]]
  /\ lane' = [c \in Calls |-> IF HoldsSlot(c) THEN "none" ELSE lane[c]]
KeepPending == UNCHANGED <<pending, reply, lane>>

\* #clearPendingReplies with a connection's end: everything is rejected.
ClearPending ==
  /\ pending' = [i \in Ids |-> None]
  /\ reply' = [c \in Calls |-> IF HoldsSlot(c) THEN "rejected" ELSE reply[c]]
  /\ lane' = [c \in Calls |-> IF HoldsSlot(c) THEN "none" ELSE lane[c]]

\* #getPacketIdentifierHandler: the lowest free identifier is reserved.
Reserve(c) ==
  /\ FreeIds # {}
  /\ pending' = [pending EXCEPT ![LeastFree] = c]
  /\ reply' = [reply EXCEPT ![c] = "pending"]

-----------------------------------------------------------------------------
(***************************************************************************)
(* The stream the client's user reads (ClientSource).                      *)
(***************************************************************************)

FreshStream == [closed |-> FALSE, sessions |-> 0]

\* enqueue() of the CONNACK that opens a session, and of ConnectionClosed.
AnnounceSession == IF stream.closed THEN stream
                   ELSE [stream EXCEPT !.sessions = @ + 1]
\* (Mutant of AnnounceClosed: ConnectionClosed is not enqueued.)
AnnounceNothing == stream
AnnounceClosed  == IF stream.closed THEN stream
                   ELSE [stream EXCEPT !.sessions = @ - 1]

\* The user cancels the stream, for instance by leaving its for-await loop.
CancelStream ==
  /\ ~stream.closed
  /\ stream' = [closed |-> TRUE, sessions |-> 0]
  /\ UNCHANGED <<handlerVars, con, writable, sizeLimit, pingVars, callVars,
                 closePc>>

-----------------------------------------------------------------------------
(***************************************************************************)
(* The message handler: connecting and the handshake.                      *)
(***************************************************************************)

\* The constructor, which calls open().
Init ==
  /\ active = TRUE /\ handler = TRUE /\ hpc = "connecting"
  /\ con = NoConnection /\ writable = FALSE /\ sizeLimit = "default"
  /\ interval = "off" /\ missed = 0 /\ pingWrites = 0
  /\ pending = [i \in Ids |-> None]
  /\ callPc = [c \in Calls |-> "idle"]
  /\ lane = [c \in Calls |-> "none"]
  /\ reply = [c \in Calls |-> "none"]
  /\ requests = {}
  /\ closePc = [k \in Closers |-> "idle"]
  /\ stream = FreshStream

\* (Mutant of LoopHead: #active is ignored.)
LoopForever == "connecting"
\* The condition of the handler's loop.
LoopHead == IF active THEN "connecting" ELSE "done"

\* connectLowLevel throws; #active decides whether the handler waits.
ConnectFails ==
  /\ hpc = "connecting"
  /\ hpc' = IF active THEN "delay" ELSE "done"
  /\ UNCHANGED <<active, handler, con, writable, sizeLimit, pingVars, callVars,
                 closePc, stream>>

\* delay(reconnectTime): nothing but its length depends on reconnectTime, and
\* with 0 it is over at once.
DelayOver ==
  /\ hpc = "delay"
  /\ hpc' = LoopHead
  /\ UNCHANGED <<active, handler, con, writable, sizeLimit, pingVars, callVars,
                 closePc, stream>>

\* connectLowLevel resolves and CONNECT is written.
ConnectSends ==
  /\ hpc = "connecting"
  /\ sizeLimit # "tight"
  /\ con' = FreshConnection /\ writable' = TRUE
  /\ hpc' = "writeConnect"
  /\ UNCHANGED <<active, handler, sizeLimit, pingVars, callVars, closePc,
                 stream>>

\* connectLowLevel resolves, but the limit an earlier session left in #writer
\* makes serializeConnectPacket throw.
ConnectTooLarge ==
  /\ hpc = "connecting"
  /\ sizeLimit = "tight"
  /\ con' = Released(FreshConnection) /\ writable' = TRUE
  /\ hpc' = "failClose"
  /\ UNCHANGED <<active, handler, sizeLimit, pingVars, callVars, closePc,
                 stream>>

ConnectWritten ==
  /\ hpc = "writeConnect"
  /\ hpc' = "handshake"
  /\ UNCHANGED <<active, handler, con, writable, sizeLimit, pingVars, callVars,
                 closePc, stream>>

\* The locks are released and the connection is closed without a session;
\* #writable stays defined.
AbandonTo(closing) ==
  /\ con' = Released(con) /\ requests' = {}
  /\ hpc' = closing
  /\ UNCHANGED <<active, handler, writable, pingVars, pending, callPc, lane,
                 reply, closePc, stream>>

\* Writing CONNECT fails, reading fails, or CONNACK is not there in time.
HandshakeFails ==
  /\ hpc = "handshake" \/ (hpc = "writeConnect" /\ WriteMayFail)
  /\ AbandonTo("failClose")
  /\ UNCHANGED sizeLimit

\* The peer closed before it sent a CONNACK.
HandshakeEof ==
  /\ hpc = "handshake" /\ con.link = "eof"
  /\ AbandonTo("noAckClose")
  /\ UNCHANGED sizeLimit

\* A CONNACK with another reason code than Success.
ConnAckRefused ==
  /\ hpc = "handshake" /\ con.link # "broken"
  /\ AbandonTo("refuseClose")
  /\ UNCHANGED sizeLimit

\* A CONNACK whose maximum_packet_size the setter of #writer refuses.
ConnAckExcess ==
  /\ hpc = "handshake" /\ con.link # "broken"
  /\ "excess" \in ServerLimits
  /\ AbandonTo("failClose")
  /\ UNCHANGED sizeLimit

\* The interval armed for a session: server_keep_alive wins over keepalive,
\* also when it is 0, but alone it counts only when it is not 0.
Intervals == IF KeepAlive THEN {"on", "zero"} ELSE {"off", "on"}

\* A CONNACK that opens a session.
ConnAckSuccess ==
  /\ hpc = "handshake" /\ con.link # "broken"
  /\ sizeLimit' \in ServerLimits \ {"excess"}
  /\ interval' \in Intervals
  /\ missed' = 0
  /\ lane' = [c \in Calls |-> IF lane[c] = "pre" THEN "session" ELSE lane[c]]
  /\ stream' = AnnounceSession
  /\ hpc' = "dispatch"
  /\ UNCHANGED <<active, handler, con, writable, pingWrites, pending, callPc,
                 reply, requests, closePc>>

\* The handler leaves a connection that never became a session.
Leave(target) ==
  /\ hpc' = target
  /\ con' = Dropped(con)
  /\ lane' = [c \in Calls |-> "none"]
  /\ UNCHANGED <<active, handler, writable, sizeLimit, pingVars, pending,
                 callPc, reply, requests, closePc, stream>>

\* con.writable.close() settles after a refusal: resolved, the handler
\* returns; rejected, the catch clause closes again, in vain, and waits.
RefuseClosed ==
  /\ hpc = "refuseClose" /\ Drained
  /\ \/ Leave("done")
     \/ CloseRejected /\ Leave("delay")

\* The same after a connection without a CONNACK and after a failure: with
\* either outcome the handler waits before it connects again.
FailedClosed ==
  /\ hpc \in {"noAckClose", "failClose"} /\ Drained
  /\ Leave("delay")

-----------------------------------------------------------------------------
(***************************************************************************)
(* The message handler: a session.                                         *)
(***************************************************************************)

\* The SUBACK or UNSUBACK for a request is read; its identifier alone selects
\* the promise.
ReadAck(q) ==
  /\ hpc = "dispatch" /\ con.rlock /\ con.link # "broken"
  /\ q \in requests
  /\ requests' = requests \ {q}
  /\ pending' = [pending EXCEPT ![q.id] = None]
  /\ reply' = [c \in Calls |-> IF c = pending[q.id] THEN "resolved" ELSE reply[c]]
  /\ lane' = [c \in Calls |-> IF c = pending[q.id] THEN "none" ELSE lane[c]]
  /\ UNCHANGED <<handlerVars, con, writable, sizeLimit, pingVars, callPc,
                 closePc, stream>>

ReadPong ==
  /\ hpc = "dispatch" /\ con.rlock /\ con.link # "broken"
  /\ missed > 0
  /\ missed' = 0
  /\ UNCHANGED <<handlerVars, con, writable, sizeLimit, interval, pingWrites,
                 callVars, closePc, stream>>

\* r.read() is done, or fails because the connection did or because the ping
\* released the reader.
ReadEnds == con.link # "up" \/ ~con.rlock

\* (Mutant of StopPing: clearInterval is forgotten.)
KeepPinging == UNCHANGED interval
\* clearInterval
StopPing == interval' = "off"

SessionEnds ==
  /\ hpc = "dispatch" /\ ReadEnds
  /\ StopPing
  /\ con' = Released(con) /\ writable' = FALSE /\ requests' = {}
  /\ hpc' = "teardownClose"
  /\ UNCHANGED <<active, handler, sizeLimit, missed, pingWrites, pending,
                 callPc, lane, reply, closePc, stream>>

\* con.writable.close() settles.  A DISCONNECT that is still being written
\* then belongs to a connection the handler has left.
SessionClosed ==
  /\ hpc = "teardownClose" /\ Drained
  /\ ClearPending
  /\ stream' = AnnounceClosed
  /\ con' = Dropped(con) /\ missed' = 0 /\ pingWrites' = 0
  /\ closePc' = [k \in Closers |-> IF closePc[k] = "writing" THEN "lateWrite"
                                   ELSE closePc[k]]
  /\ hpc' = LoopHead
  /\ UNCHANGED <<active, handler, writable, sizeLimit, interval, callPc,
                 requests>>

-----------------------------------------------------------------------------
(***************************************************************************)
(* The ping interval.  It fires every keep_alive*1000-100 ms and terminates*)
(* the connection when the last PINGRESP is older than keep_alive*1500 ms: *)
(* never at the first tick after a PINGRESP, perhaps at the second, surely *)
(* at the third.  With keep_alive 0 any elapsed millisecond is too much.   *)
(***************************************************************************)

\* (Mutant of MayBeOnTime: PINGREQ is sent however old the last PINGRESP is.)
PingAlways == TRUE
MayBeOnTime == missed <= IF interval = "zero" THEN 0 ELSE 1
\* (Mutant of MayBeLate: a missing PINGRESP is not noticed.)
NeverLate == interval = "zero"
MayBeLate == interval = "zero" \/ missed >= 1

\* The ping releases both locks and closes con.
Terminate ==
  /\ con' = [Released(con) EXCEPT !.pinged = TRUE]
  /\ requests' = {}

TickSends ==
  /\ interval # "off" /\ con.rlock
  /\ MayBeOnTime /\ pingWrites < MaxPingWrites
  /\ missed' = missed + 1 /\ pingWrites' = pingWrites + 1
  /\ UNCHANGED <<handlerVars, con, writable, sizeLimit, interval, callVars,
                 closePc, stream>>

TickLate ==
  /\ interval # "off" /\ con.rlock
  /\ MayBeLate
  /\ Terminate
  /\ UNCHANGED <<handlerVars, writable, sizeLimit, pingVars, pending, callPc,
                 lane, reply, closePc, stream>>

PingWritten ==
  /\ pingWrites > 0
  /\ pingWrites' = pingWrites - 1
  /\ UNCHANGED <<handlerVars, con, writable, sizeLimit, interval, missed,
                 callVars, closePc, stream>>

\* In a session a failed write terminates the connection; later on the locks
\* are gone and con is closed already.
PingWriteFails ==
  /\ pingWrites > 0 /\ WriteMayFail
  /\ pingWrites' = pingWrites - 1
  /\ IF hpc = "dispatch" THEN Terminate ELSE UNCHANGED <<con, requests>>
  /\ UNCHANGED <<handlerVars, writable, sizeLimit, interval, missed, pending,
                 callPc, lane, reply, closePc, stream>>

-----------------------------------------------------------------------------
(***************************************************************************)
(* subscribe() and unsubscribe().                                          *)
(***************************************************************************)

\* A caller is identified with the promise of its last call, so it calls
\* again only when that promise has settled.
CanCall(c) == callPc[c] # "writing" /\ reply[c] # "pending"

\* Every identifier is taken: the call throws.
CallTableFull(c) ==
  /\ CanCall(c)
  /\ FreeIds = {}
  /\ callPc' = [callPc EXCEPT ![c] = "threw"]
  /\ reply' = [reply EXCEPT ![c] = "none"]
  /\ UNCHANGED <<handlerVars, con, writable, sizeLimit, pingVars, pending,
                 lane, requests, closePc, stream>>

\* The packet cannot be serialized, or #writable is a writer whose lock was
\* released: the call throws and its identifier stays reserved.
CallThrows(c) ==
  /\ CanCall(c)
  /\ Reserve(c)
  /\ callPc' = [callPc EXCEPT ![c] = "threw"]
  /\ UNCHANGED <<handlerVars, con, writable, sizeLimit, pingVars, lane,
                 requests, closePc, stream>>

\* `this.#writable?.write` without a writer sends nothing.
CallUnsent(c) ==
  /\ CanCall(c)
  /\ ~writable
  /\ Reserve(c)
  /\ callPc' = [callPc EXCEPT ![c] = "waiting"]
  /\ UNCHANGED <<handlerVars, con, writable, sizeLimit, pingVars, lane,
                 requests, closePc, stream>>

\* The request is written, perhaps before the handshake is over.
CallSends(c) ==
  /\ CanCall(c)
  /\ writable /\ con.wlock
  /\ Reserve(c)
  /\ callPc' = [callPc EXCEPT ![c] = "writing"]
  /\ lane' = [lane EXCEPT ![c] = IF hpc = "dispatch" THEN "session" ELSE "pre"]
  /\ requests' = IF con.link = "up"
                 THEN requests \union {[id |-> LeastFree, call |-> c]}
                 ELSE requests
  /\ UNCHANGED <<handlerVars, con, writable, sizeLimit, pingVars, closePc,
                 stream>>

CallWritten(c) ==
  /\ callPc[c] = "writing"
  /\ callPc' = [callPc EXCEPT ![c] = "waiting"]
  /\ UNCHANGED <<handlerVars, con, writable, sizeLimit, pingVars, pending,
                 lane, reply, requests, closePc, stream>>

\* The write fails: the call throws and its identifier stays reserved.
CallWriteFails(c) ==
  /\ callPc[c] = "writing" /\ reply[c] # "resolved"
  /\ lane[c] = "none" \/ WriteMayFail
  /\ callPc' = [callPc EXCEPT ![c] = "threw"]
  /\ UNCHANGED <<handlerVars, con, writable, sizeLimit, pingVars, pending,
                 lane, reply, requests, closePc, stream>>

-----------------------------------------------------------------------------
(***************************************************************************)
(* close() and open().                                                     *)
(***************************************************************************)

\* (Mutant of HandlerReturned: close() waits for the end of the session only.)
SessionOver == hpc \notin {"handshake", "dispatch"}
\* #messageHandlerPromise is resolved.
HandlerReturned == hpc = "done"

\* close() is at 368: the await of a promise that is settled, or of undefined,
\* is over with the next microtask, whatever others have done until then.
AwaitHandler(k) ==
  closePc' = [closePc EXCEPT ![k] = IF handler /\ ~HandlerReturned
                                    THEN "awaiting" ELSE "passing"]

\* DISCONNECT is written on a live writer.
CloseSends(k) ==
  /\ closePc[k] = "idle" /\ handler
  /\ writable /\ con.wlock
  /\ active' = FALSE
  /\ con' = [con EXCEPT !.disc = TRUE]
  /\ closePc' = [closePc EXCEPT ![k] = "writing"]
  /\ UNCHANGED <<handler, hpc, writable, sizeLimit, pingVars, callVars, stream>>

\* The writer was released: its write() returns a promise that is rejected.
CloseOnReleased(k) ==
  /\ closePc[k] = "idle" /\ handler
  /\ writable /\ ~con.wlock
  /\ active' = FALSE
  /\ closePc' = [closePc EXCEPT ![k] = "failing"]
  /\ UNCHANGED <<handler, hpc, con, writable, sizeLimit, pingVars, callVars,
                 stream>>

\* There is no writer, or DISCONNECT cannot be serialized: nothing is awaited
\* before the handler's promise.
CloseUnsent(k) ==
  /\ closePc[k] = "idle" /\ handler
  /\ active' = FALSE
  /\ AwaitHandler(k)
  /\ UNCHANGED <<handler, hpc, con, writable, sizeLimit, pingVars, callVars,
                 stream>>

\* The write settles; whether it succeeded makes no difference.
CloseWritten(k) ==
  /\ closePc[k] \in {"writing", "lateWrite", "failing"}
  /\ AwaitHandler(k)
  /\ UNCHANGED <<handlerVars, con, writable, sizeLimit, pingVars, callVars,
                 stream>>

\* close() goes on after the await of the handler's promise.
CloseReturns(k) ==
  /\ \/ closePc[k] = "awaiting" /\ HandlerReturned
     \/ closePc[k] = "passing"
  /\ stream' = FreshStream
  /\ handler' = FALSE
  /\ closePc' = [closePc EXCEPT ![k] = "idle"]
  /\ UNCHANGED <<active, hpc, con, writable, sizeLimit, pingVars, callVars>>

\* open() finds no promise.  Bound of the model: it starts no handler beside
\* one that a close() has forgotten, which only an open() at "passing" allows.
Open ==
  /\ ~handler
  /\ \A k \in Closers : closePc[k] \in {"idle"} \union OpensAmid
  /\ hpc = "done"
  /\ active' = TRUE /\ handler' = TRUE
  /\ hpc' = "connecting"
  /\ UNCHANGED <<con, writable, sizeLimit, pingVars, callVars, closePc, stream>>

-----------------------------------------------------------------------------
(***************************************************************************)
(* The specification.                                                      *)
(***************************************************************************)

\* Steps of the handler that do not wait for a packet of the broker.
HandlerStep ==
  \/ ConnectFails \/ DelayOver \/ ConnectSends \/ ConnectTooLarge
  \/ ConnectWritten \/ HandshakeFails \/ HandshakeEof \/ ConnAckRefused
  \/ ConnAckExcess \/ ConnAckSuccess \/ RefuseClosed \/ FailedClosed
  \/ SessionEnds \/ SessionClosed

Tick == TickSends \/ TickLate
PingSettles == PingWritten \/ PingWriteFails
CallSettles(c) == CallWritten(c) \/ CallWriteFails(c)
Call(c) == CallTableFull(c) \/ CallThrows(c) \/ CallUnsent(c) \/ CallSends(c)
Close(k) == CloseSends(k) \/ CloseOnReleased(k) \/ CloseUnsent(k)

Next ==
  \/ HandlerStep \/ ReadPong
  \/ \E q \in Requests : ReadAck(q)
  \/ Tick \/ PingSettles
  \/ \E c \in Calls : Call(c) \/ CallSettles(c)
  \/ \E k \in Closers : Close(k) \/ CloseWritten(k) \/ CloseReturns(k)
  \/ Open \/ CancelStream \/ LinkEnds

Spec == Init /\ [][Next]_vars

\* The event loop resumes whatever can go on, the interval fires, writes
\* settle, a request that was sent is answered, and a broker that was sent a
\* DISCONNECT ends the connection.  Nothing else is promised: no PINGRESP,
\* no call of the user, and no end of a connection by itself.
Fairness ==
  /\ WF_vars(HandlerStep)
  /\ WF_vars(Tick) /\ WF_vars(PingSettles)
  /\ \A q \in Requests : WF_vars(ReadAck(q))
  /\ WF_vars(con.disc /\ LinkEnds)
  /\ \A c \in Calls : WF_vars(CallSettles(c))
  /\ \A k \in Closers : WF_vars(CloseWritten(k)) /\ WF_vars(CloseReturns(k))

FairSpec == Spec /\ Fairness
-----------------------------------------------------------------------------
(***************************************************************************)
(* Properties.                                                             *)
(***************************************************************************)

\* Where the handler is between the CONNACK and the end of the connection.
InSession == hpc \in {"dispatch", "teardownClose"}

\* A reply is delivered by its packet identifier alone (Client.ts:577), and
\* identifiers are reused (261-264): every request the broker may still answer
\* finds, at its identifier, the promise of the call that sent it.
RepliesReachTheirCallers == \A q \in requests : pending[q.id] = q.call

\* The table and the promises agree (Client.ts:242-278): a promise is pending
\* if and only if exactly one identifier is reserved for it.  A settled call
\* never keeps an identifier and a pending one never loses it.
SlotsMatchCalls ==
  /\ \A c \in Calls : HoldsSlot(c) <=> reply[c] = "pending"
  /\ \A i, j \in Ids : pending[i] = pending[j] /\ pending[i] # None => i = j

\* A request written on a connection does not survive it: no call still waits
\* on a session that is over (Client.ts:626) or is taken for a session's call
\* before the CONNACK.
RequestsDieWithConnection ==
  \A c \in Calls :
    /\ lane[c] # "none" => reply[c] = "pending"
    /\ lane[c] = "session" => InSession
    /\ lane[c] = "pre" => hpc \notin Unconnected /\ ~InSession

\* There is one message handler at most, and while it runs its promise is
\* there: for open(), which is to throw "open was already called", and for
\* close(), which is to wait for it (Client.ts:340,353,375).  It does not hold
\* of a program that calls open() at the last await of a close().
OneHandler == ~handler => hpc = "done"

\* An open connection is always held by the handler, which has both locks and
\* will close it; no failure, retry or close() leaks one (Client.ts:421-497,
\* 546-553,613-624).
NoLeakedConnection ==
  /\ con.open => con.wlock /\ con.rlock /\ writable
  /\ con.wlock => hpc \in {"writeConnect", "handshake", "dispatch"}

\* The reader of the stream sees a CONNACK and a ConnectionClosed around each
\* session, in this order, whatever fails in between and however the calls of
\* close() and open() interleave (Client.ts:444,628,370-374), but for an open()
\* at the last await of a close().
StreamBracketsSessions ==
  ~stream.closed => stream.sessions = IF InSession THEN 1 ELSE 0

\* The ping interval lives in its session only (Client.ts:524,608-611): a tick
\* never meets the connection of a later one.
PingOnlyInSession == interval # "off" => hpc = "dispatch"

\* close() returns when its DISCONNECT was sent on a connection that the
\* handler still has (Client.ts:360-368), at any point from CONNECT on.
CloseAfterDisconnectReturns ==
  \A k \in Closers :
    (closePc[k] = "awaiting" /\ con.disc) ~> (closePc[k] = "idle")

\* Every call whose request was written in a session is settled: answered, or
\* rejected when the session ends first (Client.ts:586,626).
SessionCallsSettle ==
  \A c \in Calls : (lane[c] = "session") ~> (reply[c] # "pending")

\* A broker that stops answering pings is noticed: the PINGRESP arrives or the
\* session ends (Client.ts:529-553).
SilentBrokerNoticed ==
  (missed > 0 /\ hpc = "dispatch") ~> (missed = 0 \/ hpc # "dispatch")

\* Answered or rejected at most once, and answered only for a request that was
\* sent on the connection of the answer: RequestReply.tla.
Sent == {q.call : q \in requests}
Promises == INSTANCE RequestReply WITH sent <- Sent
ImplementsRequestReply == Promises!Spec

-----------------------------------------------------------------------------
(***************************************************************************)
(* What the documentation says and the code does not do.                   *)
(***************************************************************************)

\* "@returns when the connection was closed" (Client.ts:351), of a close()
\* that is called, or still waits, while the handler connects.
CloseWhileConnectingReturns ==
  \A k \in Closers :
    (closePc[k] # "idle" /\ hpc = "connecting") ~> (closePc[k] = "idle")
=============================================================================
