------------------------------- MODULE Wallet -------------------------------
(***************************************************************************)
(* The points wallet as a whole: the payments of Payments and the credits  *)
(* of DepositProcessing on the same users and transaction rows.            *)
(*                                                                         *)
(* The two sides protect the balance differently.  A credit reads and      *)
(* writes it in one transaction, which aborts if the user was written in   *)
(* between; a payment reads it long before its transaction, which only     *)
(* writes.  A payment therefore undoes an open credit or a finished one    *)
(* alike, and only the first of the two is noticed.                        *)
(***************************************************************************)
EXTENDS Payments, DepositProcessing

walletVars == <<balance, txn, noticed, req, accepted, faults,
                deposit, referral, active, origin, call>>

WalletInit == PayInit /\ DepInit

\* The user documents written by a step of the payments: those whose request
\* went through its debit.
Debited == {req[r].user : r \in {q \in Req : At(q, "commit") /\ req'[q].pc = "notify"}}

\* Mutant: the transaction of a credit does not see the debits.
PaymentStep_Unnoticed ==
    /\ PayNext
    /\ UNCHANGED <<deposit, referral, active, origin, call>>

PaymentStep ==
    /\ PayNext
    /\ call' = Touch(call, {UserDoc(u) : u \in Debited})
    /\ UNCHANGED <<deposit, referral, active, origin>>

DepositStep ==
    /\ DepNext
    /\ UNCHANGED <<req, accepted, faults>>

WalletNext == PaymentStep \/ DepositStep

WalletSpec == WalletInit /\ [][WalletNext]_walletVars

-----------------------------------------------------------------------------
\* The inductive invariants of the two sides hold together: what a payment and a
\* credit know across their awaits survives the steps of the other one.  What a
\* payment has seen bounds neither the wallet nor the ledger any more (PayInv):
\* points are credited meanwhile.
WalletInv == PayCore /\ DepInv

\* A wallet moves only together with a row of its user that becomes COMPLETED, or
\* is created so, and that shows the new balance.
WalletMovesWithItsRow ==
    [][\A u \in User : balance'[u] # balance[u] =>
         \E t \in DOMAIN txn' : /\ t \in DOMAIN txn => txn[t].status = "PENDING"
                                /\ txn'[t].status = "COMPLETED"
                                /\ txn'[t].user = u
                                /\ txn'[t].after = balance'[u]]_walletVars

\* A credit still acts as one step at its commit, although the wallets it adds
\* to are spent from while it is open.
ImplementsSharedCredit == Atomic!SharedSpec
=============================================================================
