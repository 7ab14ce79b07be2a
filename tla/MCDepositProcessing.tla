------------------------ MODULE MCDepositProcessing ------------------------
(* Deposits of a referred user, on small instances. *)
EXTENDS DepositProcessing, TLC

CONSTANTS u1, u2

\* u2 invited u1.
MCReferrer == [u \in User |-> IF u = u1 THEN u2 ELSE NoUser]
MCOpening  == [u \in User |-> 0]

CallSymmetry == Permutations(Call) \cup Permutations(TxnId) \cup Permutations(Deposit)
=============================================================================
