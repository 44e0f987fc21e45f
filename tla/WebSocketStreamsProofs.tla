----------------------- MODULE WebSocketStreamsProofs -----------------------
(***************************************************************************)
(* Theorems about WebSocketStreams for any bound on its queues: how both   *)
(* streams end, what a resolved close() means and where an exception can   *)
(* come from.  The inductive invariant describes the reader, the promise   *)
(* of start, the writer and the calls of the user one after the other.     *)
(***************************************************************************)
EXTENDS WebSocketStreams, TLAPS

CallStates == {"none", "asked", "joined", "sink"} \cup Settled

TypeOK ==
  /\ checkpoint \in BOOLEAN /\ failed \in BOOLEAN /\ due \in BOOLEAN
  /\ onClose \in BOOLEAN /\ cancelled \in BOOLEAN /\ uncaught \in BOOLEAN
  /\ socket \in {"connecting", "open", "closing", "closed"}
  /\ reader \in {"readable", "closing", "closed", "errored"}
  /\ unread \in Nat /\ queue \in Nat
  /\ writer \in {"writable", "erroring", "errored", "closed"}
  /\ start \in {"pending", "opened", "failed", "done"}
  /\ call \in [{"close", "abort"} -> CallStates]
  /\ heard \in {"none", "waiting", "clean", "unclean"}

\* The source's listener is registered until the socket is closed; a reader that
\* ends before was cancelled, and one that ended in another way has no queue or
\* has still to be read.
ReaderInv ==
  /\ due => failed
  /\ failed => socket = "closed" /\ (cancelled \/ reader = "errored")
  /\ onClose <=> socket # "closed"
  /\ onClose => reader = "readable" \/ cancelled
  /\ socket = "closed" => reader # "readable"
  /\ cancelled => reader = "closed"
  /\ reader = "errored" => failed
  /\ reader # "readable" => (unread > 0 <=> reader = "closing")
  /\ socket \in {"connecting", "open"} => reader = "readable"
  /\ uncaught => cancelled /\ ~failed /\ socket = "closed"

\* The writer follows the socket, and is closed by a close() that resolves.
WriterInv ==
  /\ socket = "connecting" => start = "pending"
  /\ socket \in {"open", "closed"} => start # "pending"
  /\ socket = "closed" => writer # "writable"
  /\ heard = "clean" => socket = "closed" /\ ~failed
  /\ writer = "closed" <=> call["close"] = "resolved"
  /\ writer = "closed" => socket = "closed" /\ ~failed

\* One call of the sink at a time, and only one that was overtaken waits for a
\* socket that is closed.
CallsInv ==
  /\ heard # "none" <=> \E c \in {"close", "abort"} : call[c] = "sink"
  /\ call["close"] = "sink" => writer \in {"writable", "erroring"}
  /\ call["abort"] = "sink" => writer = "errored"
  /\ call["close"] # "joined"
  /\ call["abort"] \in {"asked", "joined"} => writer = "erroring"
  /\ call["close"] = "asked" => writer \in {"writable", "erroring"} \/ call["abort"] = "sink"
  /\ call["abort"] = "asked" /\ call["close"] # "sink" /\ socket = "closed" =>
       failed /\ (due \/ ~checkpoint)
  /\ heard = "waiting" /\ socket = "closed" /\ ~due =>
       call["abort"] = "sink" /\ failed /\ ~checkpoint

Inv == TypeOK /\ ReaderInv /\ WriterInv /\ CallsInv
-----------------------------------------------------------------------------
\* It holds before any event.
LEMMA InitInv == Init => Inv
<1> SUFFICES ASSUME Init PROVE Inv
  OBVIOUS
<1> USE DEF Init
<1>1. TypeOK
  BY DEF TypeOK, CallStates
<1>2. ReaderInv
  BY DEF ReaderInv
<1>3. WriterInv /\ CallsInv
  BY DEF WriterInv, CallsInv
<1> QED BY <1>1, <1>2, <1>3 DEF Inv

\* It survives what the streams do between two tasks.
LEMMA MicrotaskInv == Inv /\ Microtask => Inv'
<1> SUFFICES ASSUME Inv, Microtask PROVE Inv'
  OBVIOUS
<1> USE DEF Inv, TypeOK, ReaderInv, WriterInv, CallsInv, CallStates, Settled,
            sockvars, readvars, writevars
<1>1. CASE SeeStart
  BY <1>1, SMTT(30) DEF SeeStart, StartSeen, Erroring
<1>2. CASE Write
  BY <1>2, SMTT(30) DEF Write, WriteDue, ClosedBySink
<1>3. CASE FinishErroring
  BY <1>3, SMTT(30) DEF FinishErroring, ErrorDone, ClosedBySink
<1>4. CASE FinishSink
  BY <1>4, SMTT(30) DEF FinishSink, SinkDone, HasSettled, SinkOutcome, Erroring
<1> QED BY <1>1, <1>2, <1>3, <1>4 DEF Microtask

\* It survives the events of the socket (lines 24-85).
LEMMA TaskInv == Inv /\ (Task \/ Closing) => Inv'
<1> SUFFICES ASSUME Inv, Task \/ Closing PROVE Inv'
  OBVIOUS
<1> USE DEF Inv, TypeOK, ReaderInv, WriterInv, CallsInv, CallStates, Settled,
            sockvars, readvars, writevars
<1>1. CASE Opened
  BY <1>1, SMTT(30) DEF Opened
<1>2. CASE Message
  BY <1>2, SMTT(30) DEF Message
<1>3. CASE Closing
  BY <1>3, SMTT(30) DEF Closing
<1>4. CASE ErrorEvent
  <2> USE <1>4 DEF ErrorEvent, Quiet, ErrorDone, StartSeen, CloseListener, Erroring
  <2>1. failed' \in BOOLEAN /\ due' \in BOOLEAN /\ onClose' \in BOOLEAN
    BY Zenon
  <2>2. TypeOK'
    BY <2>1, SMTT(20)
  <2>3. ReaderInv'
    BY SMTT(20)
  <2>4. WriterInv' /\ CallsInv'
    BY SMTT(20)
  <2> QED BY <2>2, <2>3, <2>4
<1>5. CASE Closed
  <2> USE <1>5 DEF Closed, CloseEvent, Quiet, ErrorDone, StartSeen, Erroring
  <2>1. due' \in BOOLEAN /\ onClose' \in BOOLEAN /\ uncaught' \in BOOLEAN
    BY Zenon
  <2>2. TypeOK'
    BY <2>1, SMTT(20)
  <2>3. ReaderInv'
    BY SMTT(20)
  <2>4. WriterInv' /\ CallsInv'
    BY SMTT(20)
  <2> QED BY <2>2, <2>3, <2>4
<1>6. CASE Lost
  <2> USE <1>6 DEF Lost, CloseEvent, Quiet, ErrorDone, StartSeen, Erroring
  <2>1. due' \in BOOLEAN /\ onClose' \in BOOLEAN /\ uncaught' \in BOOLEAN
    BY Zenon
  <2>2. TypeOK'
    BY <2>1, SMTT(20)
  <2>3. ReaderInv'
    BY SMTT(20)
  <2>4. WriterInv' /\ CallsInv'
    BY SMTT(20)
  <2> QED BY <2>2, <2>3, <2>4
<1> QED BY <1>1, <1>2, <1>3, <1>4, <1>5, <1>6 DEF Task

\* It survives the calls of the user.
LEMMA UserInv == Inv /\ User => Inv'
<1> SUFFICES ASSUME Inv, User PROVE Inv'
  OBVIOUS
<1> USE DEF Inv, TypeOK, ReaderInv, WriterInv, CallsInv, CallStates, Settled,
            sockvars, readvars, writevars
<1>1. CASE Read
  BY <1>1, SMTT(30) DEF Read
<1>2. CASE Cancel
  BY <1>2, SMTT(30) DEF Cancel, ClosedBySink
<1>3. CASE Send
  BY <1>3, SMTT(30) DEF Send
<1>4. CASE Close
  BY <1>4, SMTT(30) DEF Close
<1>5. CASE Abort
  BY <1>5, SMTT(30) DEF Abort, Erroring
<1> QED BY <1>1, <1>2, <1>3, <1>4, <1>5 DEF User

-----------------------------------------------------------------------------
\* The adapter's invariant (streamifyWebSocket, lines 15-111): reader, writer and calls
\* agree with the socket whatever the order of its events and of the user's calls.
THEOREM WebSocketInv == Spec => []Inv
<1>1. Inv /\ [Next]_vars => Inv'
  <2> SUFFICES ASSUME Inv, [Next]_vars PROVE Inv'
    OBVIOUS
  <2>1. CASE Next
    BY <2>1, MicrotaskInv, TaskInv, UserInv DEF Next
  <2>2. CASE UNCHANGED vars
    BY <2>2, SMTT(30) DEF vars, sockvars, readvars, writevars, Inv, TypeOK, ReaderInv, WriterInv,
      CallsInv
  <2> QED BY <2>1, <2>2
<1> QED BY <1>1, InitInv, PTL DEF Spec

\* When the socket is closed and everything has reacted, both streams have ended as
\* the socket did, and nothing waits but an abort that was overtaken and a close()
\* behind it (the listeners of lines 24-35 and 48-85 of src/helper/websocket.ts).
THEOREM StreamsEnd == Spec => []BothStreamsEnd
<1>1. Inv => BothStreamsEnd
  <2> SUFFICES ASSUME Inv, AtRest PROVE BothStreamsEnd
    BY DEF BothStreamsEnd
  <2> USE DEF Inv, TypeOK, AtRest, Quiet
  <2>1. reader = IF failed /\ ~cancelled THEN "errored"
                 ELSE IF unread > 0 THEN "closing" ELSE "closed"
    BY DEF ReaderInv
  <2>2. start = "done"
    BY DEF WriterInv, StartSeen
  <2>3. \/ heard = "none" /\ \A c \in {"close", "abort"} : call[c] \in Settled \cup {"none"}
        \/ Overtaken
    <3>1. CASE heard = "none"
      <4>1. \A c \in {"close", "abort"} : call[c] # "sink"
        BY <3>1 DEF CallsInv
      <4>2. writer # "erroring" /\ writer # "writable"
        BY <2>2, <4>1 DEF WriterInv, ErrorDone
      <4>3. call["close"] \in CallStates /\ call["abort"] \in CallStates
        OBVIOUS
      <4>4. call["close"] # "joined"
        BY DEF CallsInv
      <4> QED BY <3>1, <4>1, <4>2, <4>3, <4>4 DEF CallsInv, CallStates
    <3>2. CASE heard # "none"
      BY <3>2 DEF WriterInv, CallsInv, SinkDone, HasSettled, Overtaken
    <3> QED BY <3>1, <3>2
  <2>4. writer = IF call["close"] = "resolved" THEN "closed" ELSE "errored"
    BY <2>2, SMTT(30) DEF WriterInv, CallsInv, ErrorDone, SinkDone, HasSettled
  <2> QED BY <2>1, <2>2, <2>3, <2>4 DEF BothStreamsEnd
<1> QED BY <1>1, WebSocketInv, PTL

\* A close() that resolves has closed the socket, and cleanly (lines 49-53, 99-110).
THEOREM CloseIsClean == Spec => []CloseMeansClosed
<1>1. Inv => CloseMeansClosed
  BY DEF Inv, WriterInv, CloseMeansClosed
<1> QED BY <1>1, WebSocketInv, PTL

\* Messages and events of the socket never find a stream that has ended, unless the
\* user has cancelled it (lines 26-29 and 38).
THEOREM UncaughtFromCancel == Spec => []UncaughtOnlyAfterCancel
<1>1. Inv => UncaughtOnlyAfterCancel
  BY DEF Inv, ReaderInv, UncaughtOnlyAfterCancel
<1> QED BY <1>1, WebSocketInv, PTL
=============================================================================
