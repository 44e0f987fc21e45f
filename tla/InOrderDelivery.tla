-------------------------- MODULE InOrderDelivery --------------------------
(***************************************************************************)
(* What a stream over the bytes of a connection promises its reader: the   *)
(* items the bytes stand for, one after the other from the first, and none *)
(* once the stream is broken.  There are no bytes, chunks and rests here.  *)
(***************************************************************************)
EXTENDS Naturals, Sequences

VARIABLES
  promised,  \* the items of the connection, in order
  given,     \* the items the reader was given
  broken     \* the stream was given an error

Init == given = <<>> /\ broken = FALSE

Deliver ==
  /\ ~broken
  /\ Len(given) < Len(promised)
  /\ given' = Append(given, promised[Len(given) + 1])
  /\ UNCHANGED <<promised, broken>>

Break == broken' = TRUE /\ UNCHANGED <<promised, given>>

Next == Deliver \/ Break

Spec == Init /\ [][Next]_<<promised, given, broken>>
=============================================================================
