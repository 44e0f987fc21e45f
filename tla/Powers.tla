------------------------------- MODULE Powers -------------------------------
(* Powers of a natural number, as a function whose equation the proofs use.  *)
EXTENDS Integers

\* Power(b)[k] is b^k.
Power(b) == LET power[k \in Nat] == IF k = 0 THEN 1 ELSE b * power[k - 1] IN power
=============================================================================
