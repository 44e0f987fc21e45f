-------------------------- MODULE MqttClientProofs --------------------------
(***************************************************************************)
(* Theorems about MqttClient, for any set of callers and closers and any   *)
(* number of packet identifiers.                                           *)
(***************************************************************************)
EXTENDS MqttClient, WellFoundedInduction, TLAPS

(***************************************************************************)
(* The identifier #getPacketIdentifierHandler reserves.                    *)
(***************************************************************************)

\* When an identifier is free, the one that is reserved is free and an
\* identifier of the table (Client.ts:261-264).
LEMMA LeastFreeIsFree ==
  ASSUME FreeIds # {}
  PROVE  LeastFree \in Ids /\ pending[LeastFree] = None
<1> DEFINE Below == OpToRel(<, Nat)
<1>1. FreeIds \subseteq Nat
  BY ConstantsAssumption DEF FreeIds, Ids
<1>2. IsWellFoundedOn(Below, Nat)
  BY NatLessThanWellFounded
<1>3. \A x, y \in Nat : <<y, x>> \in Below <=> y < x
  BY DEF OpToRel
<1> HIDE DEF Below
<1>4. PICK i \in FreeIds : \A j \in FreeIds : ~(<<j, i>> \in Below)
  BY <1>1, <1>2, WFMin
<1>5. ASSUME NEW j \in FreeIds PROVE i <= j
  <2>1. i \in Nat /\ j \in Nat
    BY <1>1
  <2>2. ~(j < i)
    BY <1>3, <1>4, <2>1, Zenon
  <2>3. QED
    BY <2>1, <2>2
<1>6. QED
  BY <1>5 DEF LeastFree, FreeIds

-----------------------------------------------------------------------------
(***************************************************************************)
(* Types of the calls and of the table of pending replies.                 *)
(***************************************************************************)

\* Nothing a step does to a call or to #pendingReplies leaves their types.
LEMMA CallsTypeStep == CallsTypeOK /\ [Next]_vars => CallsTypeOK'
<1> SUFFICES ASSUME CallsTypeOK, [Next]_vars PROVE CallsTypeOK'
  OBVIOUS
<1> USE DEF CallsTypeOK, callVars
<1>handler. CASE HandlerStep /\ ~ConnAckSuccess /\ ~SessionClosed
  BY <1>handler
     DEF HandlerStep, ConnectFails, DelayOver, ConnectWritten, ConnectSends,
         ConnectTooLarge, HandshakeFails, HandshakeEof, ConnAckRefused,
         ConnAckExcess, AbandonTo, RefuseClosed, FailedClosed, Leave, SessionEnds
<1>session. CASE ConnAckSuccess
  BY <1>session DEF ConnAckSuccess
<1>closed. CASE SessionClosed
  BY <1>closed DEF SessionClosed, ClearPending
<1>ack. ASSUME NEW q \in Requests, ReadAck(q) PROVE CallsTypeOK'
  BY <1>ack DEF ReadAck
<1>ping. CASE ReadPong \/ Tick \/ PingSettles
  BY <1>ping DEF ReadPong, Tick, TickSends, TickLate, PingSettles, PingWritten,
                 PingWriteFails, Terminate
<1>call. ASSUME NEW c \in Calls, Call(c) PROVE CallsTypeOK'
  <2>1. CASE CallTableFull(c)
    BY <2>1 DEF CallTableFull
  <2>2. CASE CallThrows(c) \/ CallUnsent(c)
    BY <2>2 DEF CallThrows, CallUnsent, Reserve
  <2>3. CASE CallSends(c)
    BY <2>3, LeastFreeIsFree DEF CallSends, Reserve, Requests
  <2>4. QED
    BY <1>call, <2>1, <2>2, <2>3 DEF Call
<1>settles. ASSUME NEW c \in Calls, CallSettles(c) PROVE CallsTypeOK'
  BY <1>settles DEF CallSettles, CallWritten, CallWriteFails
<1>close. ASSUME NEW k \in Closers, Close(k) \/ CloseWritten(k) \/ CloseReturns(k)
          PROVE  CallsTypeOK'
  BY <1>close DEF Close, CloseSends, CloseOnReleased, CloseUnsent,
                 CloseWritten, CloseReturns
<1>others. CASE Open \/ CancelStream \/ LinkEnds
  BY <1>others DEF Open, CancelStream, LinkEnds
<1>stutter. CASE UNCHANGED vars
  BY <1>stutter DEF vars
<1> QED
  BY <1>handler, <1>session, <1>closed, <1>ack, <1>ping, <1>call, <1>settles,
     <1>close, <1>others, <1>stutter DEF Next

-----------------------------------------------------------------------------
(***************************************************************************)
(* The handler, its connection and its stream, for any OpensAmid.  A        *)
(* stream that a close() replaces in the middle of a session misses its     *)
(* CONNACK and nothing else: the type of the stream needs this bound.       *)
(***************************************************************************)

StreamBound ==
  ~stream.closed => stream.sessions \in IF InSession THEN {0, 1} ELSE {-1, 0}

HandlerInv ==
  /\ HandlerTypeOK
  /\ StreamBound
  /\ NoLeakedConnection

\* What the operators on a connection return.
LEMMA ReleasedConnection ==
  ASSUME NEW c \in Connection
  PROVE  /\ Released(c) \in Connection
         /\ ~Released(c).open /\ ~Released(c).wlock /\ ~Released(c).rlock
BY DEF Connection, Released

\* A connection whose link is gone keeps what it holds.
LEMMA DroppedConnection ==
  ASSUME NEW c \in Connection
  PROVE  /\ Dropped(c) \in Connection
         /\ Dropped(c).open = c.open
         /\ Dropped(c).wlock = c.wlock /\ Dropped(c).rlock = c.rlock
BY DEF Connection, Dropped

\* A terminated connection holds no lock and is not open.
LEMMA TerminatedConnection ==
  ASSUME NEW c \in Connection
  PROVE  /\ [Released(c) EXCEPT !.pinged = TRUE] \in Connection
         /\ ~[Released(c) EXCEPT !.pinged = TRUE].open
         /\ ~[Released(c) EXCEPT !.pinged = TRUE].wlock
         /\ ~[Released(c) EXCEPT !.pinged = TRUE].rlock
BY DEF Connection, Released

\* A connection that was just opened holds both locks.
LEMMA FreshConnectionType ==
  /\ FreshConnection \in Connection
  /\ FreshConnection.open /\ FreshConnection.wlock /\ FreshConnection.rlock
BY DEF FreshConnection, Connection

\* The connection of a new client.
LEMMA NewConnection ==
  NoConnection \in Connection /\ ~NoConnection.open /\ ~NoConnection.wlock
BY DEF NoConnection, Connection

\* The two changes that others make to the connection.
LEMMA EndedConnection ==
  ASSUME NEW c \in Connection, NEW l \in {"eof", "broken"}
  PROVE  /\ [c EXCEPT !.link = l] \in Connection
         /\ [c EXCEPT !.link = l].open = c.open
         /\ [c EXCEPT !.link = l].wlock = c.wlock
         /\ [c EXCEPT !.link = l].rlock = c.rlock
BY DEF Connection

\* A DISCONNECT changes neither the connection's locks nor whether it is open.
LEMMA DisconnectedConnection ==
  ASSUME NEW c \in Connection
  PROVE  /\ [c EXCEPT !.disc = TRUE] \in Connection
         /\ [c EXCEPT !.disc = TRUE].open = c.open
         /\ [c EXCEPT !.disc = TRUE].wlock = c.wlock
         /\ [c EXCEPT !.disc = TRUE].rlock = c.rlock
BY DEF Connection

\* A stream after a session was announced, was ended, or was never begun.
LEMMA StreamOperators ==
  LET Stream == [closed : BOOLEAN, sessions : -1..1]
  IN  /\ FreshStream \in Stream /\ FreshStream.sessions = 0
      /\ ~FreshStream.closed
      /\ stream \in Stream /\ (stream.closed \/ stream.sessions \in {-1, 0}) =>
           /\ AnnounceSession \in Stream
           /\ AnnounceSession.closed = stream.closed
           /\ ~stream.closed => AnnounceSession.sessions = stream.sessions + 1
      /\ stream \in Stream /\ (stream.closed \/ stream.sessions \in {0, 1}) =>
           /\ AnnounceClosed \in Stream
           /\ AnnounceClosed.closed = stream.closed
           /\ ~stream.closed => AnnounceClosed.sessions = stream.sessions - 1
BY DEF FreshStream, AnnounceSession, AnnounceClosed

\* The invariant holds when the constructor has called open().
LEMMA HandlerInvInit == Init => HandlerInv
<1> SUFFICES ASSUME Init PROVE HandlerInv
  OBVIOUS
<1>1. HandlerTypeOK
  <2>1. con \in Connection /\ stream \in [closed : BOOLEAN, sessions : -1..1]
    BY NewConnection, StreamOperators DEF Init
  <2>2. closePc \in [Closers -> ClosePcs]
    BY DEF Init, ClosePcs
  <2>3. active \in BOOLEAN /\ handler \in BOOLEAN /\ writable \in BOOLEAN
    BY DEF Init
  <2>4. hpc \in HandlerPcs /\ sizeLimit \in {"default", "tight"}
    BY DEF Init, HandlerPcs, Unconnected
  <2>5. interval \in {"off", "on", "zero"} /\ missed \in 0..2
        /\ pingWrites \in 0..MaxPingWrites
    BY DEF Init, MaxPingWrites
  <2>6. QED
    BY <2>1, <2>2, <2>3, <2>4, <2>5 DEF HandlerTypeOK
<1>2. StreamBound /\ NoLeakedConnection
  BY NewConnection, StreamOperators
     DEF Init, StreamBound, NoLeakedConnection, InSession
<1>3. QED
  BY <1>1, <1>2 DEF HandlerInv

\* Every step of every actor keeps it.
LEMMA HandlerInvStep == HandlerInv /\ [Next]_vars => HandlerInv'
<1> SUFFICES ASSUME HandlerInv, [Next]_vars PROVE HandlerInv'
  OBVIOUS
<1> USE DEF HandlerInv, HandlerTypeOK, StreamBound, NoLeakedConnection, InSession,
            HandlerPcs, Closings, Unconnected, ClosePcs, handlerVars, pingVars
<1>connecting. CASE ConnectFails \/ DelayOver \/ ConnectWritten
  BY <1>connecting DEF ConnectFails, DelayOver, ConnectWritten, LoopHead
<1>connected. CASE ConnectSends \/ ConnectTooLarge
  BY <1>connected, ReleasedConnection, FreshConnectionType
     DEF ConnectSends, ConnectTooLarge
<1>abandoned. CASE HandshakeFails \/ HandshakeEof \/ ConnAckRefused \/ ConnAckExcess
  BY <1>abandoned, ReleasedConnection
     DEF HandshakeFails, HandshakeEof, ConnAckRefused, ConnAckExcess, AbandonTo
<1>left. CASE RefuseClosed \/ FailedClosed
  BY <1>left, DroppedConnection DEF RefuseClosed, FailedClosed, Leave
<1>session. CASE ConnAckSuccess
  <2>1. stream.closed \/ stream.sessions \in {-1, 0}
    BY <1>session DEF ConnAckSuccess
  <2>2. interval' \in {"off", "on", "zero"} /\ sizeLimit' \in {"default", "tight"}
    BY <1>session, ConstantsAssumption DEF ConnAckSuccess, Intervals
  <2>3. QED
    BY <1>session, <2>1, <2>2, StreamOperators DEF ConnAckSuccess
<1>ends. CASE SessionEnds
  BY <1>ends, ReleasedConnection DEF SessionEnds, StopPing
<1>closed. CASE SessionClosed
  BY <1>closed, DroppedConnection, StreamOperators
     DEF SessionClosed, LoopHead, MaxPingWrites
<1>ack. ASSUME NEW q \in Requests, ReadAck(q) PROVE HandlerInv'
  BY <1>ack DEF ReadAck
<1>pong. CASE ReadPong
  BY <1>pong DEF ReadPong
<1>tick. CASE Tick
  <2>1. CASE TickSends
    BY <2>1 DEF TickSends, MayBeOnTime, MaxPingWrites
  <2>2. CASE TickLate
    BY <2>2, TerminatedConnection DEF TickLate, Terminate
  <2>3. QED
    BY <1>tick, <2>1, <2>2 DEF Tick
<1>ping. CASE PingSettles
  <2>1. pingWrites' \in 0..MaxPingWrites
    BY <1>ping DEF PingSettles, PingWritten, PingWriteFails, MaxPingWrites
  <2>2. CASE UNCHANGED con
    BY <1>ping, <2>1, <2>2 DEF PingSettles, PingWritten, PingWriteFails
  <2>3. CASE Terminate
    BY <1>ping, <2>1, <2>3, TerminatedConnection
       DEF PingSettles, PingWritten, PingWriteFails, Terminate
  <2>4. QED
    BY <1>ping, <2>2, <2>3 DEF PingSettles, PingWritten, PingWriteFails
<1>call. ASSUME NEW c \in Calls, Call(c) PROVE HandlerInv'
  BY <1>call DEF Call, CallTableFull, CallThrows, CallUnsent, CallSends
<1>settles. ASSUME NEW c \in Calls, CallSettles(c) PROVE HandlerInv'
  BY <1>settles DEF CallSettles, CallWritten, CallWriteFails
<1>close. ASSUME NEW k \in Closers, Close(k) PROVE HandlerInv'
  <2>1. CASE CloseSends(k)
    <3>1. /\ con' \in Connection /\ con'.open = con.open
          /\ con'.wlock = con.wlock /\ con'.rlock = con.rlock
      BY <2>1, DisconnectedConnection DEF CloseSends
    <3>2. QED
      BY <2>1, <3>1 DEF CloseSends
  <2>2. CASE CloseOnReleased(k) \/ CloseUnsent(k)
    BY <2>2 DEF CloseOnReleased, CloseUnsent, AwaitHandler
  <2>3. QED
    BY <1>close, <2>1, <2>2 DEF Close
<1>finish. ASSUME NEW k \in Closers, CloseWritten(k) \/ CloseReturns(k)
           PROVE  HandlerInv'
  <2>1. CASE CloseWritten(k)
    BY <2>1 DEF CloseWritten, AwaitHandler
  <2>2. CASE CloseReturns(k)
    BY <2>2, StreamOperators DEF CloseReturns
  <2>3. QED
    BY <1>finish, <2>1, <2>2
<1>others. CASE Open \/ CancelStream \/ LinkEnds
  <2>1. CASE Open
    BY <2>1 DEF Open
  <2>2. CASE CancelStream
    BY <2>2 DEF CancelStream
  <2>3. CASE LinkEnds
    <3>1. PICK l \in {"eof", "broken"} : con' = [con EXCEPT !.link = l]
      BY <2>3 DEF LinkEnds
    <3>2. /\ con' \in Connection /\ con'.open = con.open
          /\ con'.wlock = con.wlock /\ con'.rlock = con.rlock
      BY <3>1, EndedConnection
    <3>3. QED
      BY <2>3, <3>2 DEF LinkEnds
  <2>4. QED
    BY <1>others, <2>1, <2>2, <2>3
<1>stutter. CASE UNCHANGED vars
  BY <1>stutter DEF vars
<1> QED
  BY <1>connecting, <1>connected, <1>abandoned, <1>left, <1>session, <1>ends,
     <1>closed, <1>ack, <1>pong, <1>tick, <1>ping, <1>call, <1>settles,
     <1>close, <1>finish, <1>others, <1>stutter
     DEF Next, HandlerStep

-----------------------------------------------------------------------------
(***************************************************************************)
(* The theorems about the handler.                                         *)
(***************************************************************************)

\* Together with the types of the calls this is inductive.
LEMMA HandlerInvariant == Spec => [](HandlerInv /\ CallsTypeOK)
<1>1. Init => CallsTypeOK
  BY DEF Init, CallsTypeOK
<1>2. QED
  BY <1>1, HandlerInvInit, HandlerInvStep, CallsTypeStep, PTL DEF Spec

\* Every variable keeps its type.
THEOREM TypeCorrect == Spec => []TypeOK
<1>1. HandlerInv /\ CallsTypeOK => TypeOK
  BY DEF HandlerInv, TypeOK
<1>2. QED
  BY <1>1, HandlerInvariant, PTL

\* The connections the handler opens stay in its hands until they are closed
\* (Client.ts:421-497, 546-553, 613-624).
THEOREM ConnectionsAreHeld == Spec => []NoLeakedConnection
<1>1. HandlerInv => NoLeakedConnection
  BY DEF HandlerInv
<1>2. QED
  BY <1>1, HandlerInvariant, PTL

-----------------------------------------------------------------------------
(***************************************************************************)
(* One handler and a bracketed stream, of a program that never calls       *)
(* open() at the last await of a close().  They need to know that a        *)
(* close() that is there finds a handler that has returned: it started     *)
(* nothing since.                                                          *)
(***************************************************************************)

AloneInv ==
  /\ OneHandler
  /\ StreamBracketsSessions
  /\ \A k \in Closers : closePc[k] = "passing" => hpc = "done"

LEMMA AloneStep ==
  ASSUME "passing" \notin OpensAmid, HandlerInv, AloneInv, [Next]_vars
  PROVE  AloneInv'
<1> USE DEF HandlerInv, HandlerTypeOK, AloneInv, OneHandler,
            StreamBracketsSessions, InSession, handlerVars, pingVars
<1>session. CASE ConnAckSuccess
  BY <1>session, StreamOperators DEF ConnAckSuccess
<1>closed. CASE SessionClosed
  BY <1>closed, StreamOperators DEF SessionClosed, LoopHead
<1>handler. CASE HandlerStep /\ ~ConnAckSuccess /\ ~SessionClosed
  BY <1>handler
     DEF HandlerStep, ConnectFails, DelayOver, ConnectWritten, ConnectSends,
         ConnectTooLarge, HandshakeFails, HandshakeEof, ConnAckRefused,
         ConnAckExcess, AbandonTo, RefuseClosed, FailedClosed, Leave, SessionEnds,
         LoopHead
<1>broker. CASE ReadPong \/ \E q \in Requests : ReadAck(q)
  BY <1>broker DEF ReadPong, ReadAck
<1>ping. CASE Tick \/ PingSettles
  BY <1>ping DEF Tick, TickSends, TickLate, PingSettles, PingWritten, PingWriteFails
<1>call. ASSUME NEW c \in Calls, Call(c) \/ CallSettles(c) PROVE AloneInv'
  BY <1>call DEF Call, CallTableFull, CallThrows, CallUnsent, CallSends, CallSettles,
                 CallWritten, CallWriteFails
<1>close. ASSUME NEW k \in Closers, Close(k) \/ CloseWritten(k) PROVE AloneInv'
  <2>1. CASE CloseSends(k) \/ CloseOnReleased(k)
    BY <2>1 DEF CloseSends, CloseOnReleased
  <2>2. CASE CloseUnsent(k) \/ CloseWritten(k)
    BY <2>2 DEF CloseUnsent, CloseWritten, AwaitHandler, HandlerReturned
  <2>3. QED
    BY <1>close, <2>1, <2>2 DEF Close
<1>returns. ASSUME NEW k \in Closers, CloseReturns(k) PROVE AloneInv'
  BY <1>returns, StreamOperators DEF CloseReturns, HandlerReturned
<1>open. CASE Open
  BY <1>open DEF Open
<1>others. CASE CancelStream \/ LinkEnds \/ UNCHANGED vars
  BY <1>others DEF CancelStream, LinkEnds, vars
<1> QED
  BY <1>session, <1>closed, <1>handler, <1>broker, <1>ping, <1>call, <1>close,
     <1>returns, <1>open, <1>others DEF Next

\* The invariant behind both.
LEMMA AloneInvariant ==
  ASSUME "passing" \notin OpensAmid
  PROVE  Spec => []AloneInv
<1>1. Init => AloneInv
  BY StreamOperators
     DEF Init, AloneInv, OneHandler, StreamBracketsSessions, InSession
<1>2. HandlerInv /\ AloneInv /\ [Next]_vars => AloneInv'
  BY AloneStep
<1>3. QED
  BY <1>1, <1>2, HandlerInvariant, PTL DEF Spec

\* However connections fail and calls of close() and open() interleave, but for
\* an open() at the last await of a close(), there is one message handler, and
\* open() and close() find it (Client.ts:340,353,375).
THEOREM HandlerIsAlone ==
  ASSUME "passing" \notin OpensAmid
  PROVE  Spec => []OneHandler
<1>1. AloneInv => OneHandler
  BY DEF AloneInv
<1>2. QED
  BY <1>1, AloneInvariant, PTL

\* Under the same condition the stream shows a CONNACK and a ConnectionClosed
\* around each session (Client.ts:444, 628, 370-374).
THEOREM SessionsAreBracketed ==
  ASSUME "passing" \notin OpensAmid
  PROVE  Spec => []StreamBracketsSessions
<1>1. AloneInv => StreamBracketsSessions
  BY DEF AloneInv
<1>2. QED
  BY <1>1, AloneInvariant, PTL

-----------------------------------------------------------------------------
(***************************************************************************)
(* Replies.  That a reply reaches its caller is not inductive: it needs    *)
(* that no two identifiers are reserved for one promise, that a promise is *)
(* pending while it has one, and that no request outlives the locks of the *)
(* connection it was sent on.                                              *)
(***************************************************************************)

RequestsNeedConnection == requests # {} => con.wlock

RepliesInv ==
  /\ SlotsMatchCalls
  /\ RepliesReachTheirCallers
  /\ RequestsNeedConnection

\* Reserving an identifier for a caller without a promise keeps the table and
\* the promises in agreement.
LEMMA ReserveKeepsSlots ==
  ASSUME CallsTypeOK, SlotsMatchCalls, NEW c \in Calls, reply[c] # "pending",
         Reserve(c)
  PROVE  SlotsMatchCalls'
<1> DEFINE free == LeastFree
<1>1. free \in Ids /\ pending[free] = None
  BY LeastFreeIsFree DEF Reserve
<1>2. /\ pending' = [pending EXCEPT ![free] = c]
      /\ reply' = [reply EXCEPT ![c] = "pending"]
  BY DEF Reserve
<1> HIDE DEF free
<1>3. \A i \in Ids : pending'[i] = IF i = free THEN c ELSE pending[i]
  BY <1>1, <1>2 DEF CallsTypeOK
<1>4. \A d \in Calls : reply'[d] = IF d = c THEN "pending" ELSE reply[d]
  BY <1>2 DEF CallsTypeOK
<1>5. \A i \in Ids : pending[i] # c
  BY DEF SlotsMatchCalls, HoldsSlot
<1>6. ASSUME NEW d \in Calls PROVE HoldsSlot(d)' <=> reply'[d] = "pending"
  BY <1>1, <1>3, <1>4, <1>5, ConstantsAssumption DEF SlotsMatchCalls, HoldsSlot
<1>7. ASSUME NEW i \in Ids, NEW j \in Ids,
             pending'[i] = pending'[j], pending'[i] # None
      PROVE  i = j
  BY <1>3, <1>5, <1>7 DEF SlotsMatchCalls
<1>8. QED
  BY <1>6, <1>7 DEF SlotsMatchCalls

\* A reply frees its identifier and settles the one promise that holds it.
LEMMA AckKeepsReplies ==
  ASSUME CallsTypeOK, SlotsMatchCalls, RepliesReachTheirCallers,
         NEW q \in Requests, ReadAck(q)
  PROVE  SlotsMatchCalls' /\ RepliesReachTheirCallers'
<1>1. /\ q \in requests /\ requests' = requests \ {q}
      /\ pending[q.id] = q.call /\ q.id \in Ids /\ q.call \in Calls
  BY DEF ReadAck, RepliesReachTheirCallers, Requests
<1>2. \A i \in Ids : pending'[i] = IF i = q.id THEN None ELSE pending[i]
  BY <1>1 DEF ReadAck, CallsTypeOK
<1>3. \A d \in Calls : reply'[d] = IF d = q.call THEN "resolved" ELSE reply[d]
  BY <1>1 DEF ReadAck
<1>4. ASSUME NEW i \in Ids, pending[i] = q.call PROVE i = q.id
  BY <1>1, <1>4, ConstantsAssumption DEF SlotsMatchCalls
<1>5. ASSUME NEW d \in Calls PROVE HoldsSlot(d)' <=> reply'[d] = "pending"
  BY <1>1, <1>2, <1>3, <1>4, ConstantsAssumption DEF SlotsMatchCalls, HoldsSlot
<1>6. ASSUME NEW i \in Ids, NEW j \in Ids,
             pending'[i] = pending'[j], pending'[i] # None
      PROVE  i = j
  BY <1>2, <1>6 DEF SlotsMatchCalls
<1>7. ASSUME NEW p \in requests' PROVE pending'[p.id] = p.call
  <2>1. p \in Requests /\ p # q /\ pending[p.id] = p.call /\ p.id \in Ids
    BY <1>1, <1>7 DEF RepliesReachTheirCallers, CallsTypeOK, Requests
  <2>2. p.id # q.id
    BY <1>1, <2>1 DEF Requests
  <2>3. QED
    BY <1>2, <2>1, <2>2
<1>8. QED
  BY <1>5, <1>6, <1>7 DEF SlotsMatchCalls, RepliesReachTheirCallers

\* A call that reserves an identifier, whether or not its request is sent.
LEMMA ReserveKeepsReplies ==
  ASSUME CallsTypeOK, SlotsMatchCalls, RepliesReachTheirCallers,
         NEW c \in Calls, reply[c] # "pending", Reserve(c),
         requests' \subseteq requests \union {[id |-> LeastFree, call |-> c]}
  PROVE  RepliesReachTheirCallers'
<1> DEFINE free == LeastFree
<1>1. free \in Ids /\ pending[free] = None
  BY LeastFreeIsFree DEF Reserve
<1>2. pending' = [pending EXCEPT ![free] = c]
  BY DEF Reserve
<1>3. requests' \subseteq requests \union {[id |-> free, call |-> c]}
  OBVIOUS
<1> HIDE DEF free
<1>4. \A i \in Ids : pending'[i] = IF i = free THEN c ELSE pending[i]
  BY <1>1, <1>2 DEF CallsTypeOK
<1>5. ASSUME NEW q \in requests' PROVE pending'[q.id] = q.call
  <2>1. CASE q \in requests
    <3>1. q.id \in Ids /\ q.call \in Calls /\ pending[q.id] = q.call
      BY <2>1 DEF CallsTypeOK, RepliesReachTheirCallers, Requests
    <3>2. QED
      BY <1>1, <1>4, <3>1, ConstantsAssumption
  <2>2. CASE q = [id |-> free, call |-> c]
    BY <1>1, <1>4, <2>2
  <2>3. QED
    BY <1>3, <1>5, <2>1, <2>2
<1>6. QED
  BY <1>5 DEF RepliesReachTheirCallers

\* Steps that leave the table alone keep what is said about replies.
LEMMA TableUnchanged ==
  ASSUME SlotsMatchCalls, RepliesReachTheirCallers,
         UNCHANGED <<pending, reply>>, requests' \subseteq requests
  PROVE  SlotsMatchCalls' /\ RepliesReachTheirCallers'
BY DEF SlotsMatchCalls, RepliesReachTheirCallers, HoldsSlot

\* A new client has no requests.
LEMMA RepliesInvInit == Init => RepliesInv
<1> SUFFICES ASSUME Init PROVE RepliesInv
  OBVIOUS
<1>1. /\ \A i \in Ids : pending[i] = None
      /\ \A c \in Calls : reply[c] = "none" /\ c # None
      /\ requests = {}
  BY ConstantsAssumption DEF Init
<1>2. QED
  BY <1>1 DEF RepliesInv, SlotsMatchCalls, RepliesReachTheirCallers,
              RequestsNeedConnection, HoldsSlot

\* Every step keeps the invariant of the replies.
LEMMA RepliesInvStep ==
  RepliesInv /\ HandlerInv /\ CallsTypeOK /\ [Next]_vars => RepliesInv'
<1> SUFFICES ASSUME RepliesInv, HandlerInv, CallsTypeOK, [Next]_vars
             PROVE  RepliesInv'
  OBVIOUS
<1> USE DEF RepliesInv, RequestsNeedConnection
<1>noRequests. ~con.wlock => requests = {}
  OBVIOUS
<1>lock. con.wlock => hpc \in {"writeConnect", "handshake", "dispatch"}
  BY DEF HandlerInv, NoLeakedConnection
<1>type. con \in Connection
  BY DEF HandlerInv, HandlerTypeOK
<1>table. ASSUME UNCHANGED <<pending, reply>>,
                 requests' = {} \/ (requests' = requests /\ con'.wlock = con.wlock)
          PROVE  RepliesInv'
  BY <1>table, TableUnchanged
<1>same. ASSUME UNCHANGED callVars, con' = con PROVE RepliesInv'
  BY <1>same, <1>table DEF callVars
<1>connecting. CASE ConnectFails \/ DelayOver \/ ConnectWritten
  BY <1>connecting, <1>same DEF ConnectFails, DelayOver, ConnectWritten
<1>connected. CASE ConnectSends \/ ConnectTooLarge
  BY <1>connected, <1>lock, <1>noRequests, <1>table
     DEF ConnectSends, ConnectTooLarge, callVars
<1>abandoned. CASE HandshakeFails \/ HandshakeEof \/ ConnAckRefused \/ ConnAckExcess
  BY <1>abandoned, <1>table
     DEF HandshakeFails, HandshakeEof, ConnAckRefused, ConnAckExcess, AbandonTo
<1>left. CASE RefuseClosed \/ FailedClosed
  BY <1>left, <1>lock, <1>noRequests, <1>table DEF RefuseClosed, FailedClosed, Leave
<1>session. CASE ConnAckSuccess
  BY <1>session, <1>table DEF ConnAckSuccess
<1>ends. CASE SessionEnds
  BY <1>ends, <1>table DEF SessionEnds
<1>closed. CASE SessionClosed
  <2>1. requests' = {}
    BY <1>closed, <1>lock, <1>noRequests DEF SessionClosed
  <2>2. SlotsMatchCalls'
    <3>1. \A i \in Ids : pending'[i] = None
      BY <1>closed DEF SessionClosed, ClearPending
    <3>2. ASSUME NEW c \in Calls PROVE reply'[c] # "pending" /\ c # None
      BY <1>closed, ConstantsAssumption
         DEF SessionClosed, ClearPending, SlotsMatchCalls
    <3>3. QED
      BY <3>1, <3>2 DEF SlotsMatchCalls, HoldsSlot
  <2>3. QED
    BY <2>1, <2>2 DEF RepliesReachTheirCallers
<1>ack. ASSUME NEW q \in Requests, ReadAck(q) PROVE RepliesInv'
  <2>1. RequestsNeedConnection'
    BY <1>ack DEF ReadAck
  <2>2. QED
    BY <1>ack, <2>1, AckKeepsReplies
<1>pong. CASE ReadPong
  BY <1>pong, <1>same DEF ReadPong
<1>tick. CASE Tick
  BY <1>tick, <1>same, <1>table DEF Tick, TickSends, TickLate, Terminate
<1>ping. CASE PingSettles
  BY <1>ping, <1>same, <1>table
     DEF PingSettles, PingWritten, PingWriteFails, Terminate, callVars
<1>call. ASSUME NEW c \in Calls, Call(c) PROVE RepliesInv'
  <2>1. CASE CallTableFull(c)
    <3>1. reply' = [reply EXCEPT ![c] = "none"] /\ reply[c] # "pending"
          /\ UNCHANGED <<pending, requests, con>>
      BY <2>1 DEF CallTableFull, CanCall
    <3>2. \A d \in Calls : reply'[d] = "pending" <=> reply[d] = "pending"
      BY <3>1 DEF CallsTypeOK
    <3>3. QED
      BY <3>1, <3>2 DEF SlotsMatchCalls, RepliesReachTheirCallers, HoldsSlot
  <2>2. CASE CallThrows(c) \/ CallUnsent(c) \/ CallSends(c)
    <3>1. /\ Reserve(c) /\ reply[c] # "pending"
          /\ requests' \subseteq requests \union {[id |-> LeastFree, call |-> c]}
          /\ RequestsNeedConnection'
      BY <2>2 DEF CallThrows, CallUnsent, CallSends, CanCall
    <3>2. QED
      BY <3>1, ReserveKeepsSlots, ReserveKeepsReplies
  <2>3. QED
    BY <1>call, <2>1, <2>2 DEF Call
<1>settles. ASSUME NEW c \in Calls, CallSettles(c) PROVE RepliesInv'
  BY <1>settles, <1>table DEF CallSettles, CallWritten, CallWriteFails
<1>close. ASSUME NEW k \in Closers, Close(k) PROVE RepliesInv'
  <2>1. UNCHANGED callVars /\ con'.wlock = con.wlock
    BY <1>close, <1>type, DisconnectedConnection
       DEF Close, CloseSends, CloseOnReleased, CloseUnsent
  <2>2. QED
    BY <2>1, <1>table DEF callVars
<1>finish. ASSUME NEW k \in Closers, CloseWritten(k) \/ CloseReturns(k)
           PROVE  RepliesInv'
  BY <1>finish, <1>same DEF CloseWritten, CloseReturns
<1>link. CASE LinkEnds
  <2>1. UNCHANGED callVars /\ con'.wlock = con.wlock
    BY <1>link, <1>type DEF LinkEnds, Connection
  <2>2. QED
    BY <2>1, <1>table DEF callVars
<1>others. CASE Open \/ CancelStream
  BY <1>others, <1>same DEF Open, CancelStream
<1>stutter. CASE UNCHANGED vars
  BY <1>stutter, <1>same DEF vars
<1> QED
  BY <1>connecting, <1>connected, <1>abandoned, <1>left, <1>session, <1>ends,
     <1>closed, <1>ack, <1>pong, <1>tick, <1>ping, <1>call, <1>settles,
     <1>close, <1>finish, <1>link, <1>others, <1>stutter
     DEF Next, HandlerStep

\* The invariant behind every claim about replies.
LEMMA RepliesInvariant == Spec => [](RepliesInv /\ HandlerInv /\ CallsTypeOK)
<1>1. QED
  BY HandlerInvariant, RepliesInvInit, RepliesInvStep, PTL DEF Spec

\* Whichever calls, answers, failures and reconnects there were, a reply the
\* broker sends finds the promise of the call it answers.
THEOREM RepliesReach == Spec => []RepliesReachTheirCallers
<1>1. RepliesInv => RepliesReachTheirCallers
  BY DEF RepliesInv
<1>2. QED
  BY <1>1, RepliesInvariant, PTL

\* A promise is pending if and only if one identifier is reserved for it.
THEOREM SlotsMatch == Spec => []SlotsMatchCalls
<1>1. RepliesInv => SlotsMatchCalls
  BY DEF RepliesInv
<1>2. QED
  BY <1>1, RepliesInvariant, PTL

-----------------------------------------------------------------------------
(***************************************************************************)
(* What ends with a connection.  Both invariants need to know where the    *)
(* handler is, and that of the requests that the table agrees with the     *)
(* promises.                                                               *)
(***************************************************************************)

\* An interval is armed by a CONNACK and cleared before the handler leaves.
LEMMA PingStep == PingOnlyInSession /\ HandlerInv /\ [Next]_vars => PingOnlyInSession'
<1> SUFFICES ASSUME PingOnlyInSession, HandlerInv, [Next]_vars
             PROVE  PingOnlyInSession'
  OBVIOUS
<1> USE DEF PingOnlyInSession, handlerVars, pingVars
<1>session. CASE ConnAckSuccess \/ SessionEnds
  BY <1>session DEF ConnAckSuccess, SessionEnds, StopPing
<1>handler. CASE HandlerStep /\ ~ConnAckSuccess /\ ~SessionEnds
  BY <1>handler
     DEF HandlerStep, ConnectFails, DelayOver, ConnectWritten, ConnectSends,
         ConnectTooLarge, HandshakeFails, HandshakeEof, ConnAckRefused,
         ConnAckExcess, AbandonTo, RefuseClosed, FailedClosed, Leave, SessionClosed
<1>open. CASE Open
  BY <1>open DEF Open
<1>broker. CASE ReadPong \/ \E q \in Requests : ReadAck(q)
  BY <1>broker DEF ReadPong, ReadAck
<1>ping. CASE Tick \/ PingSettles
  BY <1>ping DEF Tick, TickSends, TickLate, PingSettles, PingWritten, PingWriteFails
<1>call. ASSUME NEW c \in Calls, Call(c) \/ CallSettles(c) PROVE PingOnlyInSession'
  BY <1>call DEF Call, CallTableFull, CallThrows, CallUnsent, CallSends, CallSettles,
                 CallWritten, CallWriteFails
<1>close. ASSUME NEW k \in Closers, Close(k) \/ CloseWritten(k) \/ CloseReturns(k)
          PROVE  PingOnlyInSession'
  BY <1>close DEF Close, CloseSends, CloseOnReleased, CloseUnsent,
                 CloseWritten, CloseReturns
<1>others. CASE CancelStream \/ LinkEnds \/ UNCHANGED vars
  BY <1>others DEF CancelStream, LinkEnds, vars
<1> QED
  BY <1>session, <1>handler, <1>open, <1>broker, <1>ping, <1>call, <1>close, <1>others
     DEF Next

\* No tick of the ping interval meets a later connection (Client.ts:524, 608-611).
THEOREM PingKeepsToSession == Spec => []PingOnlyInSession
<1>1. Init => PingOnlyInSession
  BY DEF Init, PingOnlyInSession
<1>2. QED
  BY <1>1, PingStep, HandlerInvariant, PTL DEF Spec

\* A request on its way belongs to the connection the handler has.
LEMMA RequestsStep ==
  RequestsDieWithConnection /\ RepliesInv /\ HandlerInv /\ CallsTypeOK /\ [Next]_vars
    => RequestsDieWithConnection'
<1> SUFFICES ASSUME RequestsDieWithConnection, RepliesInv, HandlerInv, CallsTypeOK,
                    [Next]_vars
             PROVE  RequestsDieWithConnection'
  OBVIOUS
<1> USE DEF RequestsDieWithConnection, InSession, Unconnected, handlerVars, callVars
<1>handler. CASE HandlerStep /\ ~ConnAckSuccess /\ ~SessionClosed /\ ~RefuseClosed
                   /\ ~FailedClosed
  BY <1>handler
     DEF HandlerStep, ConnectFails, DelayOver, ConnectWritten, ConnectSends,
         ConnectTooLarge, HandshakeFails, HandshakeEof, ConnAckRefused,
         ConnAckExcess, AbandonTo, SessionEnds, LoopHead
<1>left. CASE RefuseClosed \/ FailedClosed
  BY <1>left DEF RefuseClosed, FailedClosed, Leave
<1>session. CASE ConnAckSuccess
  BY <1>session DEF ConnAckSuccess
<1>closed. CASE SessionClosed
  <2>1. \A c \in Calls : lane'[c] = "none"
    BY <1>closed DEF SessionClosed, ClearPending, RepliesInv, SlotsMatchCalls, CallsTypeOK
  <2>2. QED
    BY <2>1
<1>ack. ASSUME NEW q \in Requests, ReadAck(q) PROVE RequestsDieWithConnection'
  BY <1>ack DEF ReadAck
<1>open. CASE Open
  BY <1>open DEF Open
<1>call. ASSUME NEW c \in Calls, Call(c) PROVE RequestsDieWithConnection'
  <2>1. CASE CallTableFull(c)
    BY <2>1 DEF CallTableFull, CanCall, CallsTypeOK
  <2>2. CASE CallThrows(c) \/ CallUnsent(c)
    BY <2>2 DEF CallThrows, CallUnsent, Reserve, CallsTypeOK
  <2>3. CASE CallSends(c)
    BY <2>3 DEF CallSends, Reserve, CallsTypeOK, HandlerInv, NoLeakedConnection
  <2>4. QED
    BY <1>call, <2>1, <2>2, <2>3 DEF Call
<1>settles. ASSUME NEW c \in Calls, CallSettles(c) PROVE RequestsDieWithConnection'
  BY <1>settles DEF CallSettles, CallWritten, CallWriteFails
<1>ping. CASE ReadPong \/ Tick \/ PingSettles
  BY <1>ping DEF ReadPong, Tick, TickSends, TickLate, PingSettles, PingWritten,
                 PingWriteFails
<1>close. ASSUME NEW k \in Closers, Close(k) \/ CloseWritten(k) \/ CloseReturns(k)
          PROVE  RequestsDieWithConnection'
  BY <1>close DEF Close, CloseSends, CloseOnReleased, CloseUnsent,
                 CloseWritten, CloseReturns
<1>others. CASE CancelStream \/ LinkEnds \/ UNCHANGED vars
  BY <1>others DEF CancelStream, LinkEnds, vars
<1> QED
  BY <1>handler, <1>left, <1>session, <1>closed, <1>ack, <1>open, <1>call, <1>settles,
     <1>ping, <1>close, <1>others DEF Next

\* No call waits on a session that is over, or is taken for a session's before the
\* CONNACK (Client.ts:586, 626).
THEOREM RequestsEnd == Spec => []RequestsDieWithConnection
<1>1. Init => RequestsDieWithConnection
  BY DEF Init, RequestsDieWithConnection
<1>2. QED
  BY <1>1, RequestsStep, RepliesInvariant, PTL DEF Spec

-----------------------------------------------------------------------------
(***************************************************************************)
(* The client implements RequestReply.                                     *)
(***************************************************************************)

\* Reading a reply is the abstract answer to the call that sent the request.
LEMMA AckAnswers ==
  ASSUME RepliesInv, CallsTypeOK, NEW q \in Requests, ReadAck(q)
  PROVE  Promises!Answer(q.call)
<1>1. /\ q \in requests /\ requests' = requests \ {q}
      /\ pending[q.id] = q.call /\ q.id \in Ids /\ q.call \in Calls
  BY DEF ReadAck, RepliesInv, RepliesReachTheirCallers, Requests
<1>2. reply[q.call] = "pending"
  BY <1>1 DEF RepliesInv, SlotsMatchCalls, HoldsSlot
<1>3. reply' = [reply EXCEPT ![q.call] = "resolved"]
  BY <1>1 DEF ReadAck, CallsTypeOK
<1>4. ASSUME NEW p \in requests, p # q PROVE p.call # q.call
  <2>1. p \in Requests /\ pending[p.id] = p.call /\ p.id \in Ids
    BY DEF CallsTypeOK, RepliesInv, RepliesReachTheirCallers, Requests
  <2>2. p.id # q.id \/ p.call # q.call
    BY <1>4, <2>1 DEF Requests
  <2>3. QED
    BY <1>1, <2>1, <2>2, ConstantsAssumption DEF RepliesInv, SlotsMatchCalls
<1>5. Sent' = Sent \ {q.call}
  BY <1>1, <1>4 DEF Sent
<1>6. q.call \in Sent
  BY <1>1 DEF Sent
<1>7. QED
  BY <1>2, <1>3, <1>5, <1>6 DEF Promises!Answer

\* The end of a session is the abstract rejection of all.
LEMMA ClosedRejects ==
  ASSUME RepliesInv, HandlerInv, CallsTypeOK, SessionClosed
  PROVE  Promises!RejectAll
<1>1. requests = {} /\ requests' = requests
  BY DEF SessionClosed, RepliesInv, RequestsNeedConnection, HandlerInv,
         NoLeakedConnection
<1>2. reply' = [c \in Calls |-> IF reply[c] = "pending" THEN "rejected"
                                ELSE reply[c]]
  BY DEF SessionClosed, ClearPending, RepliesInv, SlotsMatchCalls
<1>3. QED
  BY <1>1, <1>2 DEF Promises!RejectAll, Sent

\* Every step of the client is an abstract step or changes nothing there.
LEMMA StepImplements ==
  RepliesInv /\ HandlerInv /\ CallsTypeOK /\ [Next]_vars
    => [Promises!Next]_<<reply, Sent>>
<1> SUFFICES ASSUME RepliesInv, HandlerInv, CallsTypeOK, [Next]_vars
             PROVE  [Promises!Next]_<<reply, Sent>>
  OBVIOUS
<1>same. ASSUME UNCHANGED <<reply, requests>> PROVE UNCHANGED <<reply, Sent>>
  BY <1>same DEF Sent
<1>lose. ASSUME UNCHANGED reply, requests' = {} PROVE Promises!Next
  BY <1>lose DEF Promises!Next, Promises!Lose, Sent
<1>abandon. CASE HandshakeFails \/ HandshakeEof \/ ConnAckRefused
                 \/ ConnAckExcess \/ SessionEnds
  BY <1>abandon, <1>lose
     DEF HandshakeFails, HandshakeEof, ConnAckRefused, ConnAckExcess, AbandonTo,
         SessionEnds
<1>silent. CASE ConnectFails \/ DelayOver \/ ConnectWritten \/ ConnectSends
                \/ ConnectTooLarge \/ RefuseClosed \/ FailedClosed
                \/ ConnAckSuccess \/ ReadPong \/ Open \/ CancelStream \/ LinkEnds
  BY <1>silent, <1>same
     DEF ConnectFails, DelayOver, ConnectWritten, ConnectSends, ConnectTooLarge,
         RefuseClosed, FailedClosed, Leave, ConnAckSuccess, ReadPong, Open,
         CancelStream, LinkEnds, callVars
<1>closed. CASE SessionClosed
  BY <1>closed, ClosedRejects DEF Promises!Next
<1>ack. ASSUME NEW q \in Requests, ReadAck(q) PROVE Promises!Next
  <2>1. q.call \in Calls
    BY DEF Requests
  <2>2. QED
    BY <1>ack, <2>1, AckAnswers DEF Promises!Next
<1>ping. CASE Tick \/ PingSettles
  BY <1>ping, <1>same, <1>lose
     DEF Tick, TickSends, TickLate, PingSettles, PingWritten, PingWriteFails,
         Terminate, callVars
<1>call. ASSUME NEW c \in Calls, Call(c) PROVE Promises!Next
  <2>1. CASE CallTableFull(c)
    <3>1. Promises!Refuse(c)
      BY <2>1, <1>same DEF CallTableFull, CanCall, Promises!Refuse, Sent
    <3>2. QED
      BY <3>1 DEF Promises!Next
  <2>2. CASE CallThrows(c) \/ CallUnsent(c) \/ CallSends(c)
    <3>1. reply[c] # "pending" /\ reply' = [reply EXCEPT ![c] = "pending"]
      BY <2>2 DEF CallThrows, CallUnsent, CallSends, CanCall, Reserve
    <3>2. \/ requests' = requests
          \/ requests' = requests \union {[id |-> LeastFree, call |-> c]}
      BY <2>2 DEF CallThrows, CallUnsent, CallSends
    <3>3. Sent' \in {Sent, Sent \union {c}}
      BY <3>2 DEF Sent
    <3>4. Promises!Issue(c)
      BY <3>1, <3>3 DEF Promises!Issue
    <3>5. QED
      BY <3>4 DEF Promises!Next
  <2>3. QED
    BY <1>call, <2>1, <2>2 DEF Call
<1>settles. ASSUME NEW c \in Calls, CallSettles(c) PROVE UNCHANGED <<reply, Sent>>
  BY <1>settles, <1>same DEF CallSettles, CallWritten, CallWriteFails
<1>close. ASSUME NEW k \in Closers, Close(k) \/ CloseWritten(k) \/ CloseReturns(k)
          PROVE  UNCHANGED <<reply, Sent>>
  BY <1>close, <1>same
     DEF Close, CloseSends, CloseOnReleased, CloseUnsent, CloseWritten,
         CloseReturns, callVars
<1>stutter. CASE UNCHANGED vars
  BY <1>stutter, <1>same DEF vars, callVars
<1> QED
  BY <1>abandon, <1>silent, <1>closed, <1>ack, <1>ping, <1>call, <1>settles,
     <1>close, <1>stutter DEF Next, HandlerStep

\* Seen from its callers, the client is RequestReply: a promise is settled
\* once, by the answer to its own request on the connection that carried it,
\* or by the end of a session.
THEOREM ClientImplementsRequestReply == Spec => ImplementsRequestReply
<1>1. Init => Promises!Init
  BY DEF Init, Promises!Init, Sent
<1>2. QED
  BY <1>1, RepliesInvariant, StepImplements, PTL
     DEF Spec, ImplementsRequestReply, Promises!Spec
=============================================================================
