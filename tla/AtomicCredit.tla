---------------------------- MODULE AtomicCredit ----------------------------
(***************************************************************************)
(* What deciding a deposit promises: one indivisible step that looks at    *)
(* the deposit, the wallets and the referral as they are at that moment.   *)
(* There are no requests, no snapshots and no ledger rows.  A bonus that   *)
(* is due can be left for a later deposit (the referrer may have been      *)
(* inactive a moment ago); it is never paid when it is not due.            *)
(***************************************************************************)
EXTENDS Integers

CONSTANTS User, Deposit, Points, Referrer

VARIABLES
    deposit,    \* status, owner and points of the submitted deposits
    wallet,     \* the points of every user
    paid,       \* the users whose referrer got the bonus
    active      \* the users that are active

creditVars == <<deposit, wallet, paid, active>>

CreditInit ==
    /\ DOMAIN deposit = {}
    /\ wallet \in [User -> Nat]
    /\ paid = {}
    /\ active = User

Submit(d, u, p) ==
    /\ d \notin DOMAIN deposit
    /\ deposit' = [x \in DOMAIN deposit \cup {d} |->
         IF x = d THEN [status |-> "PENDING", user |-> u, points |-> p] ELSE deposit[x]]
    /\ UNCHANGED <<wallet, paid, active>>

Undecided(d) ==
    /\ d \in DOMAIN deposit
    /\ deposit[d].status \notin {"CREDITED", "REJECTED"}

Reject(d) ==
    /\ Undecided(d)
    /\ deposit' = [deposit EXCEPT ![d].status = "REJECTED"]
    /\ UNCHANGED <<wallet, paid, active>>

Credit(d) ==
    LET u == deposit[d].user IN
    /\ Undecided(d)
    /\ deposit' = [deposit EXCEPT ![d].status = "CREDITED"]
    /\ wallet' = [wallet EXCEPT ![u] = @ + deposit[d].points]
    /\ UNCHANGED <<paid, active>>

CreditWithBonus(d, bonus) ==
    LET u == deposit[d].user IN
    /\ Undecided(d)
    /\ Referrer[u] \in active
    /\ u \notin paid
    /\ deposit' = [deposit EXCEPT ![d].status = "CREDITED"]
    /\ wallet' = [wallet EXCEPT ![u] = @ + deposit[d].points, ![Referrer[u]] = @ + bonus]
    /\ paid' = paid \cup {u}
    /\ UNCHANGED active

\* The pickup of a deposit moves it, decided or not.
Move(d, status) ==
    /\ d \in DOMAIN deposit
    /\ deposit' = [deposit EXCEPT ![d].status = status]
    /\ UNCHANGED <<wallet, paid, active>>

SetActive(users) ==
    /\ active' = users
    /\ UNCHANGED <<deposit, wallet, paid>>

\* Five percent of the points, rounded down, but at least one.
IsBonus(bonus, points) ==
    \/ bonus * 20 <= points /\ points < (bonus + 1) * 20
    \/ bonus = 1 /\ points < 20

CreditNext ==
    \/ \E d \in Deposit, u \in User, p \in Points : Submit(d, u, p)
    \/ \E d \in Deposit : Reject(d)
    \/ \E d \in Deposit : Credit(d)
    \/ \E d \in DOMAIN deposit : \E bonus \in 1 .. deposit[d].points + 1 :
         IsBonus(bonus, deposit[d].points) /\ CreditWithBonus(d, bonus)
    \/ \E d \in Deposit, status \in {"SCHEDULED", "IN_PROGRESS", "PICKED_UP"} :
         Move(d, status)
    \/ \E users \in SUBSET User : SetActive(users)

CreditSpec == CreditInit /\ [][CreditNext]_creditVars

\* Somebody else moves points, and leaves deposits, bonuses and users alone.
Spend == UNCHANGED <<deposit, paid, active>>

\* The same promise for wallets that are spent from meanwhile.
SharedSpec == CreditInit /\ [][CreditNext \/ Spend]_creditVars
=============================================================================
