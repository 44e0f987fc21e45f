-------------------------- MODULE MCMsgpackStream --------------------------
(* Values of one to three bytes, told by their first byte, and what else      *)
(* deserialize may meet: an extension without a handler, which is refused     *)
(* when its data is there, a map whose key is none, refused before its end,   *)
(* and an extension whose handler reads beyond its data.  Like the codec (see *)
(* MsgpackSerializerProofs) it reads forwards: TLC evaluates                  *)
(* DeserializeAssumption.                                                     *)
EXTENDS MsgpackStream, TLC

Sizes == <<1, 2, 3, 2, 3, 2>>    \* of what begins with the byte 1..6
Refused == 4 :> 2 @@ 5 :> 2      \* the bytes it takes to see that it is none
Starved == 6

Size(head) == IF head = 0 THEN 1 ELSE Sizes[head]

MCDeserialize(s, p) ==
  LET head == s[p + 1]
      n == Len(s) - p
  IN  IF head \in DOMAIN Refused
      THEN [kind |-> IF n >= Refused[head] THEN "error" ELSE "incomplete"]
      ELSE IF head = Starved \/ n < Size(head) THEN [kind |-> "incomplete"]
      ELSE [kind |-> "value", value |-> head, end |-> p + Size(head)]

Pieces == {SubSeq(<<head, 0, 0>>, 1, Size(head)) : head \in 1..6}
MCWires ==
  {a \o b \o c : a, b, c \in Pieces} \cup {SubSeq(a \o b, 1, Len(a) + 1) : a, b \in Pieces}
-----------------------------------------------------------------------------
\* Bytes that can never become a value are reported, and what is kept as if some
\* were missing is cut off (lines 751-754), with one exception: a handler that
\* reads beyond the data of its extension throws the same IncompleteDataError, and
\* then a value that is all there is kept.
KeptIsCutOff ==
  pc # "loop" /\ partial # <<>> =>
    LET head == partial[1]
    IN  \/ Len(partial) < IF head \in DOMAIN Refused THEN Refused[head] ELSE Size(head)
        \/ head = Starved
=============================================================================
