--------------------------- MODULE ForwardReading ---------------------------
(***************************************************************************)
(* What DeserializerStream takes for granted of deserialize (both in       *)
(* src/msgpack/mod.ts): it reads forwards and asks for each byte, so that  *)
(* only missing data can become another outcome when more bytes follow.    *)
(* An outcome is a value with the end of its bytes, or one of the two      *)
(* kinds of exception: missing data and any other.                         *)
(***************************************************************************)
EXTENDS Integers, Sequences

\* Whether two outcomes differ in nothing but the place of their chunks.
SameOutcome(one, other, shift) ==
  /\ other.kind = one.kind
  /\ one.kind = "value" => other.value = one.value /\ other.end = one.end + shift

\* Outcome(s, p) is what is found at the offset p of the chunk s; at the end of a
\* chunk it is never asked for.  It depends on the bytes from there on alone.
ReadsForward(wires, Outcome(_, _)) ==
  \A w \in wires : \A b \in 0..Len(w) : \A p \in 0..(b - 1) :
    LET outcome == Outcome(SubSeq(w, 1, b), p)
    IN  /\ \/ outcome.kind \in {"incomplete", "error"}
           \/ outcome.kind = "value" /\ outcome.end \in (p + 1)..b
        /\ \A a \in 0..p : SameOutcome(outcome, Outcome(SubSeq(w, a + 1, b), p - a), -a)
        /\ outcome.kind # "incomplete" =>
             \A c \in b..Len(w) : SameOutcome(outcome, Outcome(SubSeq(w, 1, c), p), 0)
=============================================================================
