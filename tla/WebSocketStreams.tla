-------------------------- MODULE WebSocketStreams --------------------------
(***************************************************************************)
(* streamifyWebSocket of src/helper/websocket.ts: a readable and a         *)
(* writable stream over one socket, with the events of the socket, the     *)
(* calls of the user and the promises in between.                          *)
(*                                                                         *)
(* External, as their standards say: the socket, whose tasks are single    *)
(* events but for a failure, which is an error and then a close event; and *)
(* the streams, whose reactions are microtasks.  These run before the next *)
(* task and, where the listeners are called by the host, before the second *)
(* event of a failure; where the host fires both from one function, after  *)
(* it.  An exception that leaves a listener is uncaught.                   *)
(***************************************************************************)
EXTENDS Integers

CONSTANT MaxQueue   \* bound: messages that are not read, chunks that are not written

ASSUME SocketAssumption == MaxQueue \in Nat

VARIABLES
  checkpoint,  \* the host: microtasks run between the two events of a failure
  socket,      \* readyState
  failed,      \* an error event was fired
  due,         \* the close event of a failure is still to be fired
  reader,      \* the readable stream: "readable", "closing" until the messages
               \* before a close() are read, "closed" or "errored"
  unread,      \* the messages in its queue
  onClose,     \* the source's close listener is registered
  cancelled,   \* the readable stream was cancelled
  writer,      \* "writable", "erroring", "errored" or "closed"
  start,       \* the promise of start: "pending", "opened", "failed", or "done"
               \* when the stream has seen it
  queue,       \* the chunks still to be written
  call,        \* close and abort of the user: "none", "asked", "joined" (an abort
               \* of a stream that was erroring), "sink" while the sink's is
               \* running, "resolved" or "rejected"
  heard,       \* the promise of _closeWS: "none", "waiting", resolved ("clean") or
               \* rejected ("unclean")
  uncaught     \* a listener has thrown

sockvars == <<checkpoint, socket, failed, due>>
readvars == <<reader, unread, onClose, cancelled, uncaught>>
writevars == <<writer, start, queue, call, heard>>
vars == <<sockvars, readvars, writevars>>

Settled == {"resolved", "rejected"}

Init ==
  /\ checkpoint \in BOOLEAN
  /\ socket = "connecting" /\ failed = FALSE /\ due = FALSE
  /\ reader = "readable" /\ unread = 0 /\ onClose = TRUE /\ cancelled = FALSE /\ uncaught = FALSE
  /\ writer = "writable" /\ start = "pending" /\ queue = 0
  /\ call = [c \in {"close", "abort"} |-> "none"] /\ heard = "none"
-----------------------------------------------------------------------------
(* Microtasks: what the streams do next.                                   *)

\* A mutant of Erroring: controller.error is not called.
StillWritable(w) == w

\* controller.error of the writable stream
Erroring(w) == IF w = "writable" THEN "erroring" ELSE w

\* Mutants of SinkOutcome, ClosedBySink and CloseListener below: any close event
\* resolves, the sink does not close the socket, the close listener outlives an error.
AnyCloseResolves(h) == "resolved"
NeverClosed(s) == s
StillListening(on) == on

\* The promise of _closeWS is settled, and how.
HasSettled == heard \in {"clean", "unclean"}
SinkOutcome(h) == IF h = "clean" THEN "resolved" ELSE "rejected"

StartSeen == start \in {"opened", "failed"}
ErrorDone == writer = "erroring" /\ start = "done" /\ call["close"] # "sink"
SinkDone == HasSettled /\ \E c \in {"close", "abort"} : call[c] = "sink"
WriteDue == writer = "writable" /\ start = "done" /\ (queue > 0 \/ call["close"] = "asked")

SeeStart ==
  /\ StartSeen
  /\ writer' = IF start = "failed" THEN Erroring(writer) ELSE writer
  /\ start' = "done"
  /\ UNCHANGED <<sockvars, readvars, queue, call, heard>>

\* socket.close, from _closeWS and from cancel
ClosedBySink(s) == IF s = "closed" THEN s ELSE "closing"

\* ws.send, or close of the sink when all was written
Write ==
  /\ WriteDue
  /\ IF queue > 0 THEN queue' = queue - 1 /\ UNCHANGED <<socket, call, heard>>
     ELSE /\ call' = [call EXCEPT !["close"] = "sink"]
          /\ heard' = "waiting"
          /\ socket' = ClosedBySink(socket)
          /\ UNCHANGED queue
  /\ UNCHANGED <<checkpoint, failed, due, readvars, writer, start>>

\* The stream becomes errored; abort of the sink is called for the abort that made
\* it erroring.  A close() that was asked for is rejected when that has settled, and
\* at once where there is none.  A reason that is too long makes ws.close throw: the
\* promise is rejected and the socket stays as it is.
FinishErroring ==
  LET aborts == call["abort"] = "asked"
  IN  /\ ErrorDone
      /\ writer' = "errored"
      /\ queue' = 0
      /\ call' = [c \in {"close", "abort"} |->
                    CASE c = "abort" /\ aborts -> "sink"
                      [] c = "abort" /\ call[c] = "joined" -> "rejected"
                      [] c = "close" /\ call[c] = "asked" /\ ~aborts -> "rejected"
                      [] OTHER -> call[c]]
      /\ \/ ~aborts /\ UNCHANGED <<heard, socket>>
         \/ aborts /\ heard' = "waiting" /\ socket' = ClosedBySink(socket)
         \/ aborts /\ heard' = "unclean" /\ UNCHANGED socket
      /\ UNCHANGED <<checkpoint, failed, due, readvars, start>>

\* The sink's close or abort has settled; an error that came while the sink closed
\* is forgotten when it closed well.  A close() behind an abort is rejected with it.
FinishSink ==
  LET outcome == SinkOutcome(heard)
      closed == call["close"] = "sink"
  IN  /\ SinkDone
      /\ call' = [c \in {"close", "abort"} |->
                    CASE call[c] = "sink" -> outcome
                      [] closed /\ c = "abort" /\ call[c] # "none" -> outcome
                      [] ~closed /\ c = "close" /\ call[c] = "asked" -> "rejected"
                      [] OTHER -> call[c]]
      /\ writer' = CASE closed /\ heard = "clean" -> "closed"
                     [] closed /\ heard # "clean" -> Erroring(writer)
                     [] OTHER -> writer
      /\ heard' = "none"
      /\ UNCHANGED <<sockvars, readvars, start, queue>>

Microtask == SeeStart \/ Write \/ FinishErroring \/ FinishSink
Quiet == ~StartSeen /\ ~ErrorDone /\ ~SinkDone /\ ~WriteDue
-----------------------------------------------------------------------------
(* Tasks: the events of the socket.                                        *)

\* onmessage; controller.enqueue() throws unless the stream is readable.
Message ==
  /\ Quiet
  /\ socket = "open"
  /\ unread < MaxQueue
  /\ unread' = IF reader = "readable" THEN unread + 1 ELSE unread
  /\ uncaught' = (uncaught \/ reader # "readable")
  /\ UNCHANGED <<sockvars, reader, onClose, cancelled, writevars>>

Opened ==
  /\ Quiet
  /\ socket = "connecting"
  /\ socket' = "open"
  /\ start' = "opened"
  /\ UNCHANGED <<checkpoint, failed, due, readvars, writer, queue, call, heard>>

\* The server begins to close.
Closing ==
  /\ Quiet
  /\ socket = "open"
  /\ socket' = "closing"
  /\ UNCHANGED <<checkpoint, failed, due, readvars, writevars>>

\* The error listeners: the source's, the sink's and the one of start.
CloseListener(on) == FALSE

ErrorEvent ==
  /\ Quiet
  /\ socket # "closed"
  /\ socket' = "closed" /\ failed' = TRUE /\ due' = TRUE
  /\ onClose' = CloseListener(onClose)
  /\ reader' = IF reader = "readable" THEN "errored" ELSE reader
  /\ unread' = IF reader = "readable" THEN 0 ELSE unread
  /\ writer' = Erroring(writer)
  /\ start' = IF start = "pending" THEN "failed" ELSE start
  /\ UNCHANGED <<checkpoint, cancelled, uncaught, queue, call, heard>>

\* The close listeners: the source's, the sink's, the one of start and the one of
\* _closeWS.  controller.close() throws unless the stream is readable, and lets the
\* messages before it be read.
CloseEvent(wasClean) ==
  /\ socket' = "closed" /\ due' = FALSE
  /\ onClose' = FALSE
  /\ reader' = IF ~onClose \/ reader # "readable" THEN reader
               ELSE IF unread = 0 THEN "closed" ELSE "closing"
  /\ uncaught' = (uncaught \/ (onClose /\ reader # "readable"))
  /\ writer' = Erroring(writer)
  /\ start' = IF start = "pending" THEN "failed" ELSE start
  /\ heard' = IF heard = "waiting" THEN IF wasClean THEN "clean" ELSE "unclean" ELSE heard
  /\ UNCHANGED <<checkpoint, failed, unread, cancelled, queue, call>>

\* A connection that was open is closed, or lost.
Closed ==
  /\ Quiet
  /\ start = "done"
  /\ socket \in {"open", "closing"}
  /\ \E wasClean \in BOOLEAN : CloseEvent(wasClean)

Lost ==
  /\ due
  /\ checkpoint => Quiet
  /\ CloseEvent(FALSE)
-----------------------------------------------------------------------------
(* The user.                                                               *)

Read ==
  /\ ~due
  /\ unread > 0
  /\ unread' = unread - 1
  /\ reader' = IF reader = "closing" /\ unread = 1 THEN "closed" ELSE reader
  /\ UNCHANGED <<sockvars, onClose, cancelled, uncaught, writevars>>

Cancel ==
  /\ ~due
  /\ reader \in {"readable", "closing"}
  /\ reader' = "closed"
  /\ unread' = 0
  /\ cancelled' = TRUE
  /\ socket' = ClosedBySink(socket)
  /\ UNCHANGED <<checkpoint, failed, due, onClose, uncaught, writevars>>

Send ==
  /\ ~due
  /\ writer = "writable" /\ call["close"] = "none"
  /\ queue < MaxQueue
  /\ queue' = queue + 1
  /\ UNCHANGED <<sockvars, readvars, writer, start, call, heard>>

Close ==
  /\ ~due
  /\ call["close"] = "none"
  /\ call' = [call EXCEPT !["close"] =
                IF writer \in {"errored", "closed"} THEN "rejected" ELSE "asked"]
  /\ UNCHANGED <<sockvars, readvars, writer, start, queue, heard>>

Abort ==
  /\ ~due
  /\ call["abort"] = "none"
  /\ call' = [call EXCEPT !["abort"] =
                CASE writer = "writable" -> "asked"
                  [] writer = "erroring" -> "joined"
                  [] OTHER -> "resolved"]
  /\ writer' = Erroring(writer)
  /\ UNCHANGED <<sockvars, readvars, start, queue, heard>>

Task == Opened \/ Message \/ ErrorEvent \/ Closed \/ Lost
User == Read \/ Cancel \/ Send \/ Close \/ Abort
Next == Microtask \/ Task \/ Closing \/ User

Spec == Init /\ [][Next]_vars

\* Microtasks run; a socket that connects opens or fails, and one that closes is
\* closed in the end: both have a timeout.
FairSpec ==
  /\ Spec
  /\ WF_vars(Microtask)
  /\ WF_vars(Lost)
  /\ WF_vars(socket = "connecting" /\ (Opened \/ ErrorEvent))
  /\ WF_vars(socket = "closing" /\ (ErrorEvent \/ Closed))
-----------------------------------------------------------------------------
AtRest == socket = "closed" /\ ~due /\ Quiet

\* An abort that was asked for while the socket connected reaches the sink, where
\* microtasks wait, after the close event of the failure, and waits for another one.
Overtaken == AtRest /\ ~checkpoint /\ failed /\ call["abort"] = "sink"

\* When the socket is closed and everything has reacted, both streams have ended:
\* the reader with an error exactly when the socket failed, unless it was cancelled,
\* and otherwise as soon as every message is read, and the writer closed exactly when
\* a close of the user has resolved; neither start nor the sink nor a call of the user
\* still waits, but an abort that was overtaken and a close() behind it (the listeners
\* of lines 24-35 and 48-85).
BothStreamsEnd ==
  AtRest =>
    /\ reader = IF failed /\ ~cancelled THEN "errored"
                ELSE IF unread > 0 THEN "closing" ELSE "closed"
    /\ writer = IF call["close"] = "resolved" THEN "closed" ELSE "errored"
    /\ start = "done"
    /\ \/ heard = "none" /\ \A c \in {"close", "abort"} : call[c] \in Settled \cup {"none"}
       \/ Overtaken

\* close() of the writable stream resolves when the socket has been closed, and
\* cleanly, although the listener of start has by then given the same stream an
\* error (lines 49-53 and 99-110).
CloseMeansClosed ==
  call["close"] = "resolved" => socket = "closed" /\ ~failed /\ writer = "closed"

\* The only exception that is not caught comes from the close event of a socket that
\* cancel() has closed: the listener closes a stream that is closed (lines 26-29 and 38).
UncaughtOnlyAfterCancel == uncaught => cancelled /\ ~failed

\* A close() or abort() of the user settles, whatever becomes of the socket, but for
\* an abort that is overtaken (_closeWS waits for a close event that may have been
\* fired before, lines 99-110) and a close() that waits behind it.
CallsSettle ==
  \A c \in {"close", "abort"} :
    call[c] # "none" ~> call[c] \in Settled \/ Overtaken
=============================================================================
