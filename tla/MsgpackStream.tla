--------------------------- MODULE MsgpackStream ---------------------------
(***************************************************************************)
(* DeserializerStream of src/msgpack/mod.ts with the reader of its values. *)
(* Chunks are cut anywhere; one call of transform() is the steps from      *)
(* Transform to the return to "idle", one for each turn of its loop.       *)
(*                                                                         *)
(* The stream machinery (external) is that of a TransformStream with the   *)
(* default strategies: transform is called only while the reader waits for *)
(* a value, the next value goes to a reader that waits and behind the      *)
(* others in a queue otherwise, and an error empties the queue.            *)
(***************************************************************************)
EXTENDS ForwardReading

CONSTANTS
  Wires,               \* the byte sequences a connection may carry
  Deserialize(_, _)    \* deserialize with the reader at an offset of a chunk

\* deserialize reads bytes, and reads them forwards; MsgpackSerializerProofs has the
\* proof that the codec does.
ASSUME DeserializeAssumption ==
  Wires \subseteq Seq(0..255) /\ ReadsForward(Wires, Deserialize)

VARIABLES
  wire,        \* what the connection carries, from its beginning to its end
  got,         \* how much of it has been given to transform
  partial,     \* #partialChunk; it is never empty when it is defined
  chunk,       \* the local chunk of transform
  pos,         \* reader.pos
  pc,          \* "idle", "loop" in transform, "closed" after the last chunk
  errored,     \* the stream was given an error
  waiting,     \* a read() of the reader is pending
  queue,       \* values that were enqueued and not yet read
  delivered,   \* history: the values read
  before       \* history: got before the last call of transform

vars == <<wire, got, partial, chunk, pos, pc, errored, waiting, queue, delivered,
          before>>

Init ==
  /\ wire \in Wires
  /\ got = 0
  /\ partial = <<>>
  /\ chunk = <<>>
  /\ pos = 0
  /\ pc = "idle"
  /\ errored = FALSE
  /\ waiting = FALSE
  /\ queue = <<>>
  /\ delivered = <<>>
  /\ before = 0
-----------------------------------------------------------------------------
\* Mutants of the definitions below: what was kept is dropped, or is put in front
\* twice, the rest is kept from behind the first byte of its value, an error is
\* taken for missing data.
NewOnly(kept, new) == new
JoinedTwice(kept, new) == kept \o kept \o new
RestBehindPos == SubSeq(chunk, pos + 2, Len(chunk))
AnyException(kind) == kind # "value"

Joined(kept, new) == kept \o new
Rest == SubSeq(chunk, pos + 1, Len(chunk))
CutOff(kind) == kind = "incomplete"
Discarded(q) == <<>>

InLoop == pc = "loop" /\ pos < Len(chunk)
Outcome == Deserialize(chunk, pos)

\* The reader takes a value of the queue, or waits for one.
Read ==
  /\ pc # "loop"
  /\ ~errored
  /\ ~waiting
  /\ IF queue = <<>> THEN waiting' = TRUE /\ UNCHANGED <<queue, delivered>>
     ELSE /\ delivered' = Append(delivered, Head(queue))
          /\ queue' = Tail(queue)
          /\ UNCHANGED waiting
  /\ UNCHANGED <<wire, got, partial, chunk, pos, pc, errored, before>>

\* transform is called with the next n bytes.
Transform(n) ==
  /\ pc = "idle"
  /\ ~errored
  /\ waiting
  /\ n \in 0..(Len(wire) - got)
  /\ chunk' = Joined(partial, SubSeq(wire, got + 1, got + n))
  /\ partial' = <<>>
  /\ got' = got + n
  /\ pos' = 0
  /\ pc' = "loop"
  /\ before' = got
  /\ UNCHANGED <<wire, errored, waiting, queue, delivered>>

Enqueue ==
  /\ InLoop
  /\ Outcome.kind = "value"
  /\ pos' = Outcome.end
  /\ IF waiting THEN delivered' = Append(delivered, Outcome.value) /\ UNCHANGED queue
     ELSE queue' = Append(queue, Outcome.value) /\ UNCHANGED delivered
  /\ waiting' = FALSE
  /\ UNCHANGED <<wire, got, partial, chunk, pc, errored, before>>

\* An IncompleteDataError: the reader goes back to where the value begins.
KeepRest ==
  /\ InLoop
  /\ CutOff(Outcome.kind)
  /\ partial' = Rest
  /\ pc' = "idle"
  /\ UNCHANGED <<wire, got, chunk, pos, errored, waiting, queue, delivered, before>>

\* Any other exception: controller.error.  A read that is pending is rejected.
Fail ==
  /\ InLoop
  /\ Outcome.kind # "value" /\ ~CutOff(Outcome.kind)
  /\ errored' = TRUE
  /\ queue' = Discarded(queue)
  /\ waiting' = FALSE
  /\ pc' = "idle"
  /\ UNCHANGED <<wire, got, partial, chunk, pos, delivered, before>>

Return ==
  /\ pc = "loop"
  /\ pos = Len(chunk)
  /\ pc' = "idle"
  /\ UNCHANGED <<wire, got, partial, chunk, pos, errored, waiting, queue, delivered, before>>

\* There is no flush(): what is kept when the connection ends is dropped.
Close ==
  /\ pc = "idle"
  /\ ~errored
  /\ got = Len(wire)
  /\ pc' = "closed"
  /\ UNCHANGED <<wire, got, partial, chunk, pos, errored, waiting, queue, delivered, before>>

LoopStep == Enqueue \/ KeepRest \/ Fail \/ Return

Next ==
  \/ Read
  \/ \E n \in 0..(Len(wire) - got) : Transform(n)
  \/ LoopStep
  \/ Close

Spec == Init /\ [][Next]_vars

\* A reader that reads on, and a connection whose bytes arrive, whatever number
\* of empty chunks comes between.
FairSpec ==
  /\ Spec
  /\ WF_vars(LoopStep)
  /\ WF_vars(Read)
  /\ SF_vars(\E n \in 1..(Len(wire) - got) : Transform(n))
-----------------------------------------------------------------------------
(* What the stream owes to its reader.                                     *)

TypeOK ==
  /\ wire \in Wires
  /\ got \in 0..Len(wire)
  /\ Len(partial) <= got
  /\ pos \in 0..Len(chunk)
  /\ pc \in {"idle", "loop", "closed"}
  /\ errored \in BOOLEAN
  /\ waiting \in BOOLEAN
  /\ waiting => queue = <<>>

\* The values of s, from each place to the first that is not one.
ValuesFrom(s) ==
  LET from[p \in 0..Len(s)] ==
        LET outcome == Deserialize(s, p)
        IN  IF p = Len(s) \/ outcome.kind # "value" THEN <<>>
            ELSE <<outcome.value>> \o from[outcome.end]
  IN  from

ValuesIn(s) == ValuesFrom(s)[0]

\* The chunks cannot be told from what is read: between two calls, what was read
\* and what is queued are the values one call with all the bytes would have
\* enqueued (joining and keeping of chunks, with the reader set back to the value's
\* first byte, lines 735-754).
ChunksInvisible ==
  pc # "loop" /\ ~errored => delivered \o queue = ValuesIn(SubSeq(wire, 1, got))

\* Bytes, chunks and rests aside, the stream is an in-order delivery of the values
\* of the wire: read one after the other from the first, and none once controller.error
\* was called (lines 746-759): InOrderDelivery.tla.
Delivery ==
  INSTANCE InOrderDelivery
    WITH promised <- ValuesIn(wire), given <- delivered, broken <- errored
ImplementsInOrderDelivery == Delivery!Spec

\* A reader that reads on gets every value, unless the stream is given an error.
EveryValueArrives == <>(errored \/ delivered = ValuesIn(wire))

\* An error costs the reader no value that was complete before the chunk that
\* holds the error: controller.error discards a queue (line 756), but the values of
\* earlier chunks were read before transform was called again.
ErrorCostsOneChunk ==
  errored => LET complete == ValuesIn(SubSeq(wire, 1, before))
             IN  /\ Len(complete) <= Len(delivered)
                 /\ complete = SubSeq(delivered, 1, Len(complete))
=============================================================================
