------------------------------ MODULE MCWallet ------------------------------
(* Payments and deposits of the same users, on small instances. *)
EXTENDS Wallet, TLC

CONSTANTS u1, u2

\* u2 invited u1.
MCReferrer == [u \in User |-> IF u = u1 /\ u2 \in User THEN u2 ELSE NoUser]
MCOpening  == [u \in User |-> 100]

WalletSymmetry == Permutations(Req) \cup Permutations(TxnId)
                    \cup Permutations(Deposit) \cup Permutations(Call)
=============================================================================
