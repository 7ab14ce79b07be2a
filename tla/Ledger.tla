------------------------------- MODULE Ledger -------------------------------
(***************************************************************************)
(* The two collections that hold money: the pointBalance of every user and *)
(* the rows of the transactions collection.  Every component that moves    *)
(* points extends this module.                                             *)
(***************************************************************************)
EXTENDS Integers, FiniteSets, FiniteSetsExt

CONSTANTS
    User,       \* the users that have a wallet
    TxnId,      \* the unique references a transaction row can be created with
    Opening     \* the pointBalance every user starts with

ASSUME OpeningAssumption == Opening \in [User -> Nat]

VARIABLES
    balance,    \* User.pointBalance
    txn,        \* the transaction rows, by reference: a function on the created ones
    noticed     \* the rows whose user was sent a notification of success

-----------------------------------------------------------------------------
RowStatus  == {"PENDING", "COMPLETED", "FAILED"}
DebitType  == {"BILL", "TRANSFER"}      \* AIRTIME, DATA, CABLE and ELECTRICITY are one
CreditType == {"DEPOSIT", "REFERRAL"}   \* the two sources of a CREDIT row

Row == [status : RowStatus, type : DebitType \cup CreditType, user : User,
        amount : Nat, before : Int, after : Int]

LedgerTypeOK ==
    /\ balance \in [User -> Int]
    /\ DOMAIN txn \subseteq TxnId /\ IsFiniteSet(DOMAIN txn)
    /\ txn \in [DOMAIN txn -> Row]
    /\ noticed \subseteq TxnId

LedgerInit ==
    /\ balance = Opening
    /\ txn = [t \in {} |-> {}]
    /\ noticed = {}

\* The collection after row is inserted under the unused reference t.
Insert(f, k, v) == [x \in DOMAIN f \cup {k} |-> IF x = k THEN v ELSE f[x]]
WithRow(t, row) == Insert(txn, t, row)

RowsOf(u, types) ==
    {t \in DOMAIN txn : txn[t].user = u /\ txn[t].type \in types
                                        /\ txn[t].status = "COMPLETED"}

Total(rows) == MapThenSumSet(LAMBDA t : txn[t].amount, rows)

\* What the wallet of u would be if it were recomputed from its ledger.
LedgerBalance(u) ==
    Opening[u] + Total(RowsOf(u, CreditType)) - Total(RowsOf(u, DebitType))

\* The wallet of every user is what the ledger says.
WalletMatchesLedger == \A u \in User : balance[u] = LedgerBalance(u)

\* No wallet holds less than the ledger says: points that were credited, or that
\* no completed row spent, are still there.
NeverOvercharged == \A u \in User : balance[u] >= LedgerBalance(u)
=============================================================================
