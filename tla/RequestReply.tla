---------------------------- MODULE RequestReply ----------------------------
(***************************************************************************)
(* What subscribe() and unsubscribe() promise their callers, without packet*)
(* identifiers, writers and a message handler: a promise is settled once,  *)
(* by the answer to the request it was made for on the connection that     *)
(* carried the request, or by the end of a session, which rejects all.     *)
(***************************************************************************)

CONSTANT Calls  \* the callers

VARIABLES
  reply,  \* the promise of each caller's last call
  sent    \* callers whose request the broker may still answer

Init == reply = [c \in Calls |-> "none"] /\ sent = {}

\* A call without a promise: it throws.
Refuse(c) ==
  /\ reply[c] # "pending"
  /\ reply' = [reply EXCEPT ![c] = "none"]
  /\ UNCHANGED sent

\* A call makes a promise, and its request is sent or not.
Issue(c) ==
  /\ reply[c] # "pending"
  /\ reply' = [reply EXCEPT ![c] = "pending"]
  /\ sent' \in {sent, sent \union {c}}

\* The answer to a request settles the promise of its caller and no other.
Answer(c) ==
  /\ c \in sent /\ reply[c] = "pending"
  /\ reply' = [reply EXCEPT ![c] = "resolved"]
  /\ sent' = sent \ {c}

\* The connection is given up: nothing sent on it will be answered.
Lose == sent' = {} /\ UNCHANGED reply

\* The end of a session rejects what is still pending.
RejectAll ==
  /\ sent = {}
  /\ reply' = [c \in Calls |-> IF reply[c] = "pending" THEN "rejected" ELSE reply[c]]
  /\ UNCHANGED sent

Next ==
  \/ \E c \in Calls : Refuse(c) \/ Issue(c) \/ Answer(c)
  \/ Lose \/ RejectAll

Spec == Init /\ [][Next]_<<reply, sent>>
=============================================================================
