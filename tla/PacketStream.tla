---------------------------- MODULE PacketStream ----------------------------
(***************************************************************************)
(* DeserializeStream of src/mqtt/DeserializeStream.ts: the bytes of a      *)
(* connection arrive in chunks that are cut anywhere, and transform()      *)
(* enqueues the packets they hold.  One call of transform is the steps     *)
(* from Transform to the return to "idle", with one step for each turn of  *)
(* its loop; nothing else touches this state in between.                   *)
(*                                                                         *)
(* The stream machinery around it (external): a TransformStream that was   *)
(* given an error calls transform no more, refuses what is enqueued by     *)
(* throwing, and ignores a second error.                                   *)
(***************************************************************************)
EXTENDS PacketFraming

CONSTANTS
  Wires,      \* the byte sequences a connection may carry
  BadHeads,   \* first bytes of packets deserializePacket throws on
  Sendings    \* what is sent: packets as finalizeMessage returns them, in order

ASSUME WiresAssumption == Wires \subseteq Seq(Byte) /\ BadHeads \subseteq Byte

\* One packet for the reader (as PacketWriter!PacketReadsBack says of what is
\* returned), of a kind that is not refused.
IsPacket(s) ==
  HeaderRead(s, 0) /\ FrameEnd(s, 0) = Len(s) /\ s[1] \notin BadHeads

ASSUME SendingsAssumption ==
  /\ Sendings \subseteq Seq(Seq(Byte))
  /\ \A pieces \in Sendings : \A i \in 1..Len(pieces) : IsPacket(pieces[i])

VARIABLES
  wire,      \* what the connection carries, from its beginning to its end
  got,       \* how much of it has been given to transform
  partial,   \* #partialChunk; it is never empty when it is defined
  chunk,     \* the local chunk of transform
  pos,       \* reader.pos
  pc,        \* "idle", "loop" in transform, "closed" after the last chunk
  errored,   \* the stream was given an error
  emitted,   \* the packets that were enqueued
  ends       \* history: the offsets in wire at which consumed packets end

vars == <<wire, got, partial, chunk, pos, pc, errored, emitted, ends>>

Packet == [head : Byte, body : Seq(Byte)]

TypeOK ==
  /\ wire \in Wires
  /\ got \in 0..Len(wire)
  /\ partial \in Seq(Byte)
  /\ chunk \in Seq(Byte)
  /\ pos \in 0..Len(chunk)
  /\ pc \in {"idle", "loop", "closed"}
  /\ errored \in BOOLEAN
  /\ emitted \in Seq(Packet)
  /\ ends \in Seq(Nat)

Init ==
  /\ wire \in Wires
  /\ got = 0
  /\ partial = <<>>
  /\ chunk = <<>>
  /\ pos = 0
  /\ pc = "idle"
  /\ errored = FALSE
  /\ emitted = <<>>
  /\ ends = <<>>
-----------------------------------------------------------------------------
\* Mutants of the definitions below: what was kept is dropped, the rest is taken
\* without going back to the packet's first byte, the packet is not moved over,
\* or one byte too far, an exception is swallowed.
NewOnly(kept, new) == IF new = <<>> THEN kept ELSE new
RestAfterHead == SubSeq(chunk, pos + 2, Len(chunk))
NotMoved == Whole(chunk, pos) /\ UNCHANGED <<pos, ends>>
MovedTooFar ==
  Whole(chunk, pos) /\ pos' = FrameEnd(chunk, pos) + 1 /\ UNCHANGED ends
Swallowed == UNCHANGED errored

Joined(kept, new) == kept \o new

\* What is kept when the packet at the reader's position is not complete: the
\* whole chunk for the first packet and the rest of it for a later one.
Rest == SubSeq(chunk, pos + 1, Len(chunk))

InLoop == pc = "loop" /\ pos < Len(chunk)

\* transform is called with the next n bytes, none of them included.
Transform(n) ==
  /\ pc = "idle"
  /\ ~errored
  /\ n \in 0..(Len(wire) - got)
  /\ chunk' = Joined(partial, SubSeq(wire, got + 1, got + n))
  /\ partial' = <<>>
  /\ got' = got + n
  /\ pos' = 0
  /\ pc' = "loop"
  /\ UNCHANGED <<wire, errored, emitted, ends>>

\* The reader moves over the packet, whatever becomes of it.
Consume ==
  /\ Whole(chunk, pos)
  /\ pos' = FrameEnd(chunk, pos)
  /\ ends' = Append(ends, got - Len(chunk) + FrameEnd(chunk, pos))

Enqueue ==
  /\ InLoop
  /\ Consume
  /\ ~errored
  /\ chunk[pos + 1] \notin BadHeads
  /\ emitted' = Append(emitted, Frame(chunk, pos))
  /\ UNCHANGED <<wire, got, partial, chunk, pc, errored>>

\* controller.error
Fail == errored' = TRUE

\* deserializePacket, or enqueue after an error, throws: the error is given to
\* the stream, and the loop goes on.
Refuse ==
  /\ InLoop
  /\ Consume
  /\ errored \/ chunk[pos + 1] \in BadHeads
  /\ Fail
  /\ UNCHANGED <<wire, got, partial, chunk, pc, emitted>>

KeepRest ==
  /\ InLoop
  /\ ~Whole(chunk, pos)
  /\ ~Malformed(chunk, pos)
  /\ partial' = Rest
  /\ pc' = "idle"
  /\ UNCHANGED <<wire, got, chunk, pos, errored, emitted, ends>>

\* readFixedHeader is outside of the try block: transform itself throws.
Throw ==
  /\ InLoop
  /\ Malformed(chunk, pos)
  /\ errored' = TRUE
  /\ pc' = "idle"
  /\ UNCHANGED <<wire, got, partial, chunk, pos, emitted, ends>>

Return ==
  /\ pc = "loop"
  /\ pos = Len(chunk)
  /\ pc' = "idle"
  /\ UNCHANGED <<wire, got, partial, chunk, pos, errored, emitted, ends>>

\* There is no flush(): what is kept when the connection ends is dropped.
Close ==
  /\ pc = "idle"
  /\ ~errored
  /\ got = Len(wire)
  /\ pc' = "closed"
  /\ UNCHANGED <<wire, got, partial, chunk, pos, errored, emitted, ends>>

LoopStep == Enqueue \/ Refuse \/ KeepRest \/ Throw \/ Return

Next ==
  \/ \E n \in 0..(Len(wire) - got) : Transform(n)
  \/ LoopStep
  \/ Close

Spec == Init /\ [][Next]_vars

\* transform is a synchronous function: once called it runs.
FairSpec == Spec /\ WF_vars(LoopStep)
-----------------------------------------------------------------------------
(* What the stream owes to its reader.                                     *)

\* Where the packet that follows the first i consumed ones begins.
Boundary(i) == IF i = 0 THEN 0 ELSE ends[i]

\* The bytes given to transform are accounted for: those up to the last
\* boundary were consumed as packets, and those after it are what transform has
\* still to read or what it keeps for its next call.  None is lost, read twice
\* or moved, however the wire was cut (joining and keeping of chunks, lines
\* 40-48 and 57-66).
BytesAccountedFor ==
  /\ pc = "loop" =>
       /\ partial = <<>>
       /\ Boundary(Len(ends)) = got - Len(chunk) + pos
       /\ chunk = SubSeq(wire, got - Len(chunk) + 1, got)
  /\ pc # "loop" /\ ~errored =>
       /\ Boundary(Len(ends)) = got - Len(partial)
       /\ partial = SubSeq(wire, got - Len(partial) + 1, got)

\* A packet is delivered by the call that brings its last byte: what is kept
\* between two calls begins with an incomplete packet (the two conditions of
\* lines 54-56).
OnlyIncompleteKept ==
  pc # "loop" /\ ~errored =>
    ~Whole(wire, Boundary(Len(ends))) \/ FrameEnd(wire, Boundary(Len(ends))) > got

\* The packets of s, from each place to the first that is refused or not there.
PacketsFrom(s) ==
  LET from[p \in 0..Len(s)] ==
        IF Whole(s, p) /\ s[p + 1] \notin BadHeads
        THEN <<Frame(s, p)>> \o from[FrameEnd(s, p)]
        ELSE <<>>
  IN  from

\* The stream is an in-order delivery of the packets the wire begins with: what is
\* enqueued are these packets, one after the other from the first, and none once
\* the stream was given an error (lines 51-79): InOrderDelivery.tla.
Delivery ==
  INSTANCE InOrderDelivery
    WITH promised <- PacketsFrom(wire)[0], given <- emitted, broken <- errored
ImplementsInOrderDelivery == Delivery!Spec

\* Where each of the pieces ends when they come one after the other, and the wire
\* on which they do.
PieceEnds(pieces) ==
  LET at[i \in 0..Len(pieces)] == IF i = 0 THEN 0 ELSE at[i - 1] + Len(pieces[i])
  IN  at

MadeOf(w, pieces) ==
  LET at == PieceEnds(pieces)
  IN  /\ at[Len(pieces)] = Len(w)
      /\ \A i \in 1..Len(pieces) : SubSeq(w, at[i - 1] + 1, at[i]) = pieces[i]

\* The packets are enqueued one for one, without an error, and all of them once all
\* bytes were given.
Arrived(pieces) ==
  /\ ~errored
  /\ \A i \in 1..Len(emitted) : i <= Len(pieces) /\ emitted[i] = Frame(pieces[i], 0)
  /\ pc # "loop" /\ got = Len(wire) => Len(emitted) = Len(pieces)

\* What was sent packet by packet arrives packet by packet, however its bytes are cut
\* (joining and keeping of chunks, lines 40-66, with the fixed header that
\* finalizeMessage wrote).
WrittenPacketsArrive ==
  \A pieces \in Sendings : MadeOf(wire, pieces) => Arrived(pieces)

\* A call of transform returns: every turn of the loop moves the reader on, a
\* packet of length 0 included.
TransformReturns == pc = "loop" ~> pc # "loop"
=============================================================================
