------------------------- MODULE DepositProcessing -------------------------
(***************************************************************************)
(* The admins' side of a deposit: AdminsService.processDeposit, which      *)
(* decides a deposit, credits its owner and, once, the owner's referrer;   *)
(* the pickup handlers that also write the deposit's status; and           *)
(* toggleUserStatus, which decides whether a referrer is active.           *)
(*                                                                         *)
(* processDeposit is a MongoDB transaction: it reads a snapshot, and its   *)
(* commit fails if a document it writes was written by anyone since.  The  *)
(* other handlers write single documents outside of a transaction, some of *)
(* them after a check they made on an earlier read.                        *)
(***************************************************************************)
EXTENDS Ledger

CONSTANTS
    Deposit,    \* the deposit requests that can be submitted
    Points,     \* the point values an item of the catalogue can have
    Referrer,   \* who referred each user
    NoUser,     \* nobody did
    Toggled,    \* the users whose status the admins toggle
    Call        \* the admin requests in flight at a time

ASSUME DepositAssumption ==
    /\ NoUser \notin User
    /\ Referrer \in [User -> User \cup {NoUser}]
    /\ \A u \in User : Referrer[u] # u
    /\ Points \subseteq Nat
    /\ Toggled \subseteq User

VARIABLES
    deposit,    \* the deposit requests: a function on the submitted ones
    referral,   \* the referral of every user
    active,     \* User.isActive
    origin,     \* metadata.depositRequestId of the CREDIT rows
    call        \* the state of every admin request

depVars == <<balance, txn, noticed, deposit, referral, active, origin, call>>

-----------------------------------------------------------------------------
Processed     == {"CREDITED", "REJECTED"}
DepositStatus == {"PENDING", "SCHEDULED", "IN_PROGRESS", "PICKED_UP"} \cup Processed

Free   == [pc |-> "free"]
Doomed == [pc |-> "doomed"]     \* a transaction that can no longer commit

ProcessJob == [pc : {"process"}, deposit : Deposit, status : Processed, user : User,
               points : Nat, seen : Int, bonusTo : User \cup {NoUser}, bonusSeen : Int]
TellJob    == [pc : {"tell"}, credit : TxnId, bonus : SUBSET TxnId]
PickupJob  == [pc : {"pickup"}, deposit : Deposit]
ToggleJob  == [pc : {"toggle"}, user : User, seen : BOOLEAN]

DepTypeOK ==
    /\ LedgerTypeOK
    /\ DOMAIN deposit \subseteq Deposit
    /\ deposit \in [DOMAIN deposit ->
                      [status : DepositStatus, user : User, points : Nat]]
    /\ referral \in [User -> {"NONE", "COMPLETED", "REWARDED"}]
    /\ active \in [User -> BOOLEAN]
    /\ DOMAIN origin \subseteq DOMAIN txn
    /\ origin \in [DOMAIN origin -> Deposit]
    /\ call \in [Call -> {Free, Doomed} \cup ProcessJob \cup TellJob \cup PickupJob \cup ToggleJob]

DepInit ==
    /\ LedgerInit
    /\ deposit = [d \in {} |-> {}]
    /\ referral = [u \in User |-> IF Referrer[u] = NoUser THEN "NONE" ELSE "COMPLETED"]
    /\ active = [u \in User |-> TRUE]
    /\ origin = [t \in {} |-> {}]
    /\ call = [c \in Call |-> Free]

\* Mutant: the share is rounded up.
Bonus_Up(points) == (points + 19) \div 20

\* referralBonusPoints: 5 percent, rounded down, at least one point.
Bonus(points) == LET share == points \div 20 IN IF share < 1 THEN 1 ELSE share

-----------------------------------------------------------------------------
(* Snapshots.  A document is named by its collection and key. *)

DepositDoc(d)  == <<"deposit", d>>
UserDoc(u)     == <<"user", u>>
ReferralDoc(u) == <<"referral", u>>

\* The documents a processDeposit writes.
Written(job) ==
    {DepositDoc(job.deposit)}
      \cup (IF job.status = "CREDITED" THEN {UserDoc(job.user)} ELSE {})
      \cup (IF job.bonusTo # NoUser THEN {UserDoc(job.bonusTo), ReferralDoc(job.user)} ELSE {})

\* Mutant: no transaction: a write since the snapshot goes unnoticed.
Touch_Unnoticed(calls, docs) == calls

\* The requests after docs are written: the open transactions that are to write
\* one of them too are doomed.
Touch(calls, docs) ==
    [c \in Call |->
       IF calls[c].pc = "process" /\ Written(calls[c]) \cap docs # {}
         THEN Doomed
         ELSE calls[c]]

-----------------------------------------------------------------------------
(* DepositsService.create *)

Submit(u, d, points) ==
    /\ d \notin DOMAIN deposit
    /\ deposit' = Insert(deposit, d, [status |-> "PENDING", user |-> u, points |-> points])
    /\ UNCHANGED <<balance, txn, noticed, referral, active, origin, call>>

(* AdminsService.processDeposit *)

\* Mutant: the status of the deposit is not looked at.
BeginProcess_Unguarded(c, d, status) ==
    LET u   == deposit[d].user
        due == status = "CREDITED" /\ referral[u] = "COMPLETED" /\ active[Referrer[u]]
    IN
    /\ call[c] = Free
    /\ d \in DOMAIN deposit
    /\ call' = [call EXCEPT ![c] =
         [pc |-> "process", deposit |-> d, status |-> status, user |-> u,
          points    |-> deposit[d].points,
          seen      |-> balance[u],
          bonusTo   |-> IF due THEN Referrer[u] ELSE NoUser,
          bonusSeen |-> IF due THEN balance[Referrer[u]] ELSE 0]]
    /\ UNCHANGED <<balance, txn, noticed, deposit, referral, active, origin>>

\* The snapshot: the deposit is not decided yet, and everything the
\* transaction will compute with is read.
BeginProcess(c, d, status) ==
    /\ d \in DOMAIN deposit
    /\ deposit[d].status \notin Processed
    /\ BeginProcess_Unguarded(c, d, status)

Decide(job) == deposit' = [deposit EXCEPT ![job.deposit].status = job.status]

CommitReject(c) ==
    LET job == call[c] IN
    /\ job.pc = "process"
    /\ job.status = "REJECTED"
    /\ Decide(job)
    /\ call' = Touch([call EXCEPT ![c] = Free], Written(job))
    /\ UNCHANGED <<balance, txn, noticed, referral, active, origin>>

\* Mutant: the row shows the old balance twice, as the row of a payment starts.
CreditRow_NotAdded(user, type, amount, seen) ==
    [status |-> "COMPLETED", type |-> type, user |-> user, amount |-> amount,
     before |-> seen, after |-> seen]

CreditRow(user, type, amount, seen) ==
    [status |-> "COMPLETED", type |-> type, user |-> user, amount |-> amount,
     before |-> seen, after |-> seen + amount]

\* Without a bonus: nobody referred the owner, the referrer was paid, or the
\* referrer is not active.
CommitCredit(c, t) ==
    LET job == call[c] IN
    /\ job.pc = "process"
    /\ job.status = "CREDITED"
    /\ job.bonusTo = NoUser
    /\ t \notin DOMAIN txn
    /\ Decide(job)
    /\ balance' = [balance EXCEPT ![job.user] = job.seen + job.points]
    /\ txn' = WithRow(t, CreditRow(job.user, "DEPOSIT", job.points, job.seen))
    /\ origin' = Insert(origin, t, job.deposit)
    /\ call' = Touch([call EXCEPT ![c] = [pc |-> "tell", credit |-> t, bonus |-> {}]],
                     Written(job))
    /\ UNCHANGED <<noticed, referral, active>>

Rewarded(u) == [referral EXCEPT ![u] = "REWARDED"]

CommitCreditWithBonus(c, t, b) ==
    LET job   == call[c]
        bonus == Bonus(job.points)
    IN
    /\ job.pc = "process"
    /\ job.status = "CREDITED"
    /\ job.bonusTo # NoUser
    /\ {t, b} \cap DOMAIN txn = {}
    /\ t # b
    /\ Decide(job)
    /\ balance' = [balance EXCEPT ![job.user]    = job.seen + job.points,
                                  ![job.bonusTo] = job.bonusSeen + bonus]
    /\ txn' = Insert(WithRow(t, CreditRow(job.user, "DEPOSIT", job.points, job.seen)),
                     b, CreditRow(job.bonusTo, "REFERRAL", bonus, job.bonusSeen))
    /\ origin' = Insert(Insert(origin, t, job.deposit), b, job.deposit)
    /\ referral' = Rewarded(job.user)
    /\ call' = Touch([call EXCEPT ![c] = [pc |-> "tell", credit |-> t, bonus |-> {b}]],
                     Written(job))
    /\ UNCHANGED <<noticed, active>>

\* A write conflict, a timeout or a crash: the transaction leaves no trace.
AbortProcess(c) ==
    /\ call[c].pc \in {"process", "doomed"}
    /\ call' = [call EXCEPT ![c] = Free]
    /\ UNCHANGED <<balance, txn, noticed, deposit, referral, active, origin>>

\* The owner, then the referrer; a notification that cannot be stored is
\* dropped.
Tell(c) ==
    /\ call[c].pc = "tell"
    /\ \E told \in SUBSET ({call[c].credit} \cup call[c].bonus) :
         noticed' = noticed \cup told
    /\ call' = [call EXCEPT ![c] = Free]
    /\ UNCHANGED <<balance, txn, deposit, referral, active, origin>>

-----------------------------------------------------------------------------
(* The pickup handlers. *)

\* A write of the status alone, outside of a transaction and of any check.
WriteStatus(d, status, calls) ==
    /\ deposit' = [deposit EXCEPT ![d].status = status]
    /\ call' = Touch(calls, {DepositDoc(d)})
    /\ UNCHANGED <<balance, txn, noticed, referral, active, origin>>

SchedulePickup(d) ==
    /\ d \in DOMAIN deposit
    /\ WriteStatus(d, "SCHEDULED", call)

MarkPickupArrived(d) ==
    /\ d \in DOMAIN deposit
    /\ WriteStatus(d, "IN_PROGRESS", call)

\* markPickedUp reads and checks ...
CheckPickedUp(c, d) ==
    /\ call[c] = Free
    /\ d \in DOMAIN deposit
    /\ deposit[d].status \in {"IN_PROGRESS", "SCHEDULED"}
    /\ call' = [call EXCEPT ![c] = [pc |-> "pickup", deposit |-> d]]
    /\ UNCHANGED <<balance, txn, noticed, deposit, referral, active, origin>>

\* ... and writes, whatever the status has become.
MarkPickedUp(c) ==
    /\ call[c].pc = "pickup"
    /\ WriteStatus(call[c].deposit, "PICKED_UP", [call EXCEPT ![c] = Free])

(* toggleUserStatus *)

ReadUserStatus(c, u) ==
    /\ call[c] = Free
    /\ call' = [call EXCEPT ![c] = [pc |-> "toggle", user |-> u, seen |-> active[u]]]
    /\ UNCHANGED <<balance, txn, noticed, deposit, referral, active, origin>>

ToggleUserStatus(c) ==
    /\ call[c].pc = "toggle"
    /\ active' = [active EXCEPT ![call[c].user] = ~call[c].seen]
    /\ call' = Touch([call EXCEPT ![c] = Free], {UserDoc(call[c].user)})
    /\ UNCHANGED <<balance, txn, noticed, deposit, referral, origin>>

-----------------------------------------------------------------------------
Process(c) ==
    \/ \E d \in Deposit, status \in Processed : BeginProcess(c, d, status)
    \/ CommitReject(c)
    \/ \E t \in TxnId : CommitCredit(c, t)
    \/ \E t, b \in TxnId : CommitCreditWithBonus(c, t, b)
    \/ AbortProcess(c)
    \/ Tell(c)

Pickup ==
    \/ \E d \in Deposit : SchedulePickup(d) \/ MarkPickupArrived(d)
    \/ \E c \in Call : (\E d \in Deposit : CheckPickedUp(c, d)) \/ MarkPickedUp(c)

DepNext ==
    \/ \E u \in User, d \in Deposit, points \in Points : Submit(u, d, points)
    \/ \E c \in Call : Process(c)
    \/ Pickup
    \/ \E c \in Call : (\E u \in Toggled : ReadUserStatus(c, u)) \/ ToggleUserStatus(c)

DepSpec == DepInit /\ [][DepNext]_depVars

-----------------------------------------------------------------------------
CreditRows(d) == {t \in DOMAIN origin : origin[t] = d /\ txn[t].type = "DEPOSIT"}

\* A bonus is paid for a referral at most once, and the referral says so: the
\* transactions of two admins who credit two deposits of the same new user do
\* not both pay it.
ReferralPaidOnce ==
    \A u \in User :
      Cardinality({t \in DOMAIN origin :
                     txn[t].type = "REFERRAL" /\ deposit[origin[t]].user = u})
        = IF referral[u] = "REWARDED" THEN 1 ELSE 0

\* The abstract processing.
Atomic == INSTANCE AtomicCredit WITH
    wallet <- balance,
    paid   <- {u \in User : referral[u] = "REWARDED"},
    active <- {u \in User : active[u]}

\* Every bonus goes to the owner's referrer and is 5 percent, at least a point,
\* of a credit that was paid for the same deposit.
BonusFollowsCredit ==
    \A b \in DOMAIN origin : txn[b].type = "REFERRAL" =>
      \E t \in CreditRows(origin[b]) : /\ txn[b].user = Referrer[txn[t].user]
                                       /\ Atomic!IsBonus(txn[b].amount, txn[t].amount)

\* A deposit is only CREDITED together with the row of its points for its owner.
CreditedHasRow ==
    \A d \in DOMAIN deposit : deposit[d].status = "CREDITED" =>
      \E t \in CreditRows(d) : /\ txn[t].user = deposit[d].user
                               /\ txn[t].amount = deposit[d].points

\* Nobody is told of points that were rolled back.
ToldOfCreditedPoints == noticed \subseteq DOMAIN txn

\* What an open transaction has read of the documents it is to write still holds,
\* and the bonus it is to pay is due.
SnapshotsHold ==
    \A c \in Call : call[c].pc = "process" =>
      LET job == call[c] IN
      /\ job.deposit \in DOMAIN deposit
      /\ deposit[job.deposit].status \notin Processed
      /\ deposit[job.deposit].user = job.user /\ deposit[job.deposit].points = job.points
      /\ job.status = "CREDITED" => job.seen = balance[job.user]
      /\ job.bonusTo # NoUser =>
           /\ job.status = "CREDITED"
           /\ job.bonusTo = Referrer[job.user] /\ referral[job.user] = "COMPLETED"
           /\ job.bonusSeen = balance[job.bonusTo] /\ active[job.bonusTo]

\* A credit, and no other row, is one of a submitted deposit: to its owner if it is
\* not a bonus.  Both are COMPLETED from the start.
RowsHaveOrigin ==
    /\ DOMAIN origin = {t \in DOMAIN txn : txn[t].type \in CreditType}
    /\ \A t \in DOMAIN origin :
         /\ txn[t].status = "COMPLETED"
         /\ origin[t] \in DOMAIN deposit
         /\ txn[t].type = "DEPOSIT" => txn[t].user = deposit[origin[t]].user

BonusRows(u) == {t \in DOMAIN origin : txn[t].type = "REFERRAL" /\ deposit[origin[t]].user = u}

OneBonusRow ==
    \A u \in User :
      IF referral[u] = "REWARDED" THEN \E b \in TxnId : BonusRows(u) = {b} ELSE BonusRows(u) = {}

ReferralsKnown == \A u \in User : referral[u] # "NONE" => Referrer[u] \in User

ToldAfterCommit ==
    \A c \in Call :
      call[c].pc = "tell" => {call[c].credit} \cup call[c].bonus \subseteq DOMAIN origin

PickupsKnown == \A c \in Call : call[c].pc = "pickup" => call[c].deposit \in DOMAIN deposit

\* The inductive invariant: types, that a CREDITED deposit has its row, that only
\* committed points are announced, and that snapshots hold until they are used.
DepInv ==
    /\ DepTypeOK
    /\ CreditedHasRow
    /\ ToldOfCreditedPoints
    /\ BonusFollowsCredit
    /\ SnapshotsHold
    /\ RowsHaveOrigin
    /\ OneBonusRow
    /\ ReferralsKnown
    /\ ToldAfterCommit
    /\ PickupsKnown

Becomes(d, status) ==
    /\ deposit[d].status # status
    /\ deposit'[d].status = status

\* A decision is only ever taken on a deposit that is undecided when it takes
\* effect, not only when the admin's transaction looked.
DecidesUndecided ==
    [][\A d \in DOMAIN deposit :
         (\E s \in Processed : Becomes(d, s)) => deposit[d].status \notin Processed]_depVars

\* A credit moves the owner's wallet by the deposit's points and nobody else's
\* but the referrer's, by the bonus: whatever payments, credits and bonuses the
\* two wallets saw since the transaction read them.
CreditIsExact ==
    [][\A d \in DOMAIN deposit : Becomes(d, "CREDITED") =>
         LET u == deposit[d].user IN
         /\ balance'[u] = balance[u] + deposit[d].points
         /\ \A v \in User \ {u} :
              balance'[v] - balance[v] =
                IF v = Referrer[u] /\ referral'[u] # referral[u]
                  THEN Bonus(deposit[d].points) ELSE 0]_depVars

\* Snapshot and commit together act as one step at the commit, in spite of the
\* other admins, the pickups and the toggles in between.
ImplementsAtomicCredit == Atomic!CreditSpec

\* A deposit is credited once: processDeposit refuses one that "has already been
\* processed".
CreditedOnce == \A d \in DOMAIN deposit : Cardinality(CreditRows(d)) <= 1

\* A deposit is only marked picked up while it is scheduled or in progress, as
\* markPickedUp says when it refuses.
PickedUpAfterSchedule ==
    [][\A d \in DOMAIN deposit : Becomes(d, "PICKED_UP") =>
         deposit[d].status \in {"SCHEDULED", "IN_PROGRESS"}]_depVars
=============================================================================
