----------------------------- MODULE MCPayments -----------------------------
(* Payments on small instances. *)
EXTENDS Payments, TLC

CONSTANTS u1, u2

MCOpening == [u \in User |-> IF u = u1 THEN 230 ELSE 60]

RequestSymmetry == Permutations(Req) \cup Permutations(TxnId)
=============================================================================
