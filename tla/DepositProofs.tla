--------------------------- MODULE DepositProofs ---------------------------
(***************************************************************************)
(* DepInv is an inductive invariant of DepositProcessing, for any number   *)
(* of users, deposits and admin requests, any points and any referrals.    *)
(*                                                                         *)
(* The heart of it is SnapshotsHold: what an open transaction has read is  *)
(* still so, because a write of a document that it is to write too dooms   *)
(* it (TouchFacts, WrittenApart).  The exactness of a credit and the       *)
(* refinement of AtomicCredit follow from that.                            *)
(***************************************************************************)
EXTENDS DepositProcessing, LedgerProofs

AnyCall == {Free, Doomed} \cup ProcessJob \cup TellJob \cup PickupJob \cup ToggleJob

\* What is known of the stored documents, and of the requests that work on them.
DataFacts ==
    /\ CreditedHasRow
    /\ ToldOfCreditedPoints
    /\ BonusFollowsCredit
    /\ RowsHaveOrigin
    /\ OneBonusRow
    /\ ReferralsKnown

CallFacts == SnapshotsHold /\ ToldAfterCommit /\ PickupsKnown

LEMMA Halves == DepInv <=> DepTypeOK /\ DataFacts /\ CallFacts
  BY DEF DepInv, DataFacts, CallFacts

LEMMA CallKinds ==
  ASSUME NEW x \in AnyCall
  PROVE  /\ x.pc = "process" => x \in ProcessJob
         /\ x.pc = "tell" => x \in TellJob
         /\ x.pc = "pickup" => x \in PickupJob
         /\ x.pc = "toggle" => x \in ToggleJob
  BY DEF AnyCall, Free, Doomed, ProcessJob, TellJob, PickupJob, ToggleJob

LEMMA RestFacts ==
  /\ Free \in AnyCall /\ Free.pc = "free"
  /\ Doomed \in AnyCall /\ Doomed.pc = "doomed"
  BY DEF AnyCall, Free, Doomed

LEMMA InitInv == DepInit => DepInv
  <1> SUFFICES ASSUME DepInit PROVE DepInv
    OBVIOUS
  <1>1. DepTypeOK
    BY OpeningAssumption, FS_EmptySet DEF DepInit, LedgerInit, DepTypeOK, LedgerTypeOK
  <1>2. CreditedHasRow /\ ToldOfCreditedPoints /\ BonusFollowsCredit
    BY DEF DepInit, LedgerInit, CreditedHasRow, ToldOfCreditedPoints, BonusFollowsCredit
  <1>3. RowsHaveOrigin
    BY DEF DepInit, LedgerInit, RowsHaveOrigin
  <1>4. OneBonusRow
    BY DEF DepInit, LedgerInit, OneBonusRow, BonusRows
  <1>5. ReferralsKnown
    BY DepositAssumption DEF DepInit, ReferralsKnown
  <1>6. CallFacts
    BY DEF DepInit, Free, CallFacts, SnapshotsHold, ToldAfterCommit, PickupsKnown
  <1> QED
    BY <1>1, <1>2, <1>3, <1>4, <1>5, <1>6 DEF DepInv, CallFacts

-----------------------------------------------------------------------------
(* Documents and snapshots *)

\* A write dooms the transactions that are to write one of the documents too, and
\* leaves the other requests as they are.
LEMMA TouchFacts ==
  ASSUME NEW calls \in [Call -> AnyCall], NEW docs
  PROVE  /\ Touch(calls, docs) \in [Call -> AnyCall]
         /\ \A c \in Call : Touch(calls, docs)[c] \in {calls[c], Doomed}
         /\ \A c \in Call : Touch(calls, docs)[c].pc = "process" =>
              Touch(calls, docs)[c] = calls[c] /\ Written(calls[c]) \cap docs = {}
  BY DEF Touch, AnyCall, Doomed

\* What the transactions of two jobs that write no document in common leave alone.
LEMMA WrittenApart ==
  ASSUME NEW job, NEW other, Written(job) \cap Written(other) = {}
  PROVE  /\ job.deposit # other.deposit
         /\ job.status = "CREDITED" /\ other.status = "CREDITED" => job.user # other.user
         /\ job.status = "CREDITED" /\ other.bonusTo # NoUser => job.user # other.bonusTo
         /\ job.bonusTo # NoUser /\ other.status = "CREDITED" => job.bonusTo # other.user
         /\ job.bonusTo # NoUser /\ other.bonusTo # NoUser =>
              job.bonusTo # other.bonusTo /\ job.user # other.user
  BY DEF Written, DepositDoc, UserDoc, ReferralDoc

LEMMA BonusFacts ==
  ASSUME NEW points \in Nat
  PROVE  /\ Bonus(points) \in 1 .. points + 1
         /\ Atomic!IsBonus(Bonus(points), points)
  BY DEF Bonus, Atomic!IsBonus

\* The requests that touch nothing but themselves.
LEMMA CallFrame ==
  ASSUME DepInv, NEW c \in Call, NEW x \in AnyCall, x.pc # "tell",
         call' = [call EXCEPT ![c] = x],
         UNCHANGED <<balance, txn, noticed, deposit, referral, active, origin>>,
         x.pc = "pickup" => x.deposit \in DOMAIN deposit,
         x.pc = "process" =>
           /\ x.deposit \in DOMAIN deposit
           /\ deposit[x.deposit].status \notin Processed
           /\ deposit[x.deposit].user = x.user /\ deposit[x.deposit].points = x.points
           /\ x.status = "CREDITED" => x.seen = balance[x.user]
           /\ x.bonusTo # NoUser =>
                /\ x.status = "CREDITED"
                /\ x.bonusTo = Referrer[x.user] /\ referral[x.user] = "COMPLETED"
                /\ x.bonusSeen = balance[x.bonusTo] /\ active[x.bonusTo]
  PROVE  DepInv'
  <1>0. call \in [Call -> AnyCall] /\ DepTypeOK /\ DataFacts /\ CallFacts
    BY Halves DEF DepTypeOK, AnyCall
  <1>1. call'[c] = x /\ \A q \in Call \ {c} : call'[q] = call[q]
    BY <1>0
  <1>2. DepTypeOK'
    <2>1. call' \in [Call -> AnyCall]
      BY <1>0
    <2> QED
      BY <1>0, <2>1 DEF DepTypeOK, LedgerTypeOK, AnyCall
  <1>3. DataFacts'
    BY <1>0 DEF DataFacts, CreditedHasRow, ToldOfCreditedPoints, BonusFollowsCredit,
                RowsHaveOrigin, OneBonusRow, BonusRows, ReferralsKnown, CreditRows,
                Atomic!IsBonus
  <1>4. SnapshotsHold'
    BY <1>0, <1>1 DEF CallFacts, SnapshotsHold
  <1>5. ToldAfterCommit' /\ PickupsKnown'
    BY <1>0, <1>1 DEF CallFacts, ToldAfterCommit, PickupsKnown
  <1> QED
    BY <1>2, <1>3, <1>4, <1>5, Halves DEF CallFacts, DepInv, DataFacts

-----------------------------------------------------------------------------
(* Requests that only read *)

LEMMA BeginProcessKeepsInv ==
  ASSUME DepInv, NEW c \in Call, NEW d \in Deposit, NEW status \in Processed,
         BeginProcess(c, d, status)
  PROVE  DepInv'
  <1> DEFINE u   == deposit[d].user
             due == status = "CREDITED" /\ referral[u] = "COMPLETED" /\ active[Referrer[u]]
             job == [pc |-> "process", deposit |-> d, status |-> status, user |-> u,
                     points    |-> deposit[d].points,
                     seen      |-> balance[u],
                     bonusTo   |-> IF due THEN Referrer[u] ELSE NoUser,
                     bonusSeen |-> IF due THEN balance[Referrer[u]] ELSE 0]
  <1>1. /\ d \in DOMAIN deposit /\ deposit[d].status \notin Processed
        /\ call' = [call EXCEPT ![c] = job]
        /\ UNCHANGED <<balance, txn, noticed, deposit, referral, active, origin>>
    BY DEF BeginProcess, BeginProcess_Unguarded
  <1>2. /\ deposit[d] \in [status : DepositStatus, user : User, points : Nat]
        /\ balance \in [User -> Int]
        /\ referral \in [User -> {"NONE", "COMPLETED", "REWARDED"}]
    BY <1>1 DEF DepInv, DepTypeOK, LedgerTypeOK
  <1>3. u \in User /\ deposit[d].points \in Nat /\ balance[u] \in Int
    BY <1>2
  <1>4. due => Referrer[u] \in User /\ Referrer[u] # NoUser /\ balance[Referrer[u]] \in Int
    <2>1. due => Referrer[u] \in User
      BY <1>3 DEF DepInv, ReferralsKnown
    <2> QED
      BY <1>2, <2>1, DepositAssumption
  <1>5. job \in ProcessJob
    BY <1>3, <1>4 DEF ProcessJob, Processed
  <1>6. /\ job.pc = "process" /\ job.deposit = d /\ job.status = status /\ job.user = u
        /\ job.points = deposit[d].points /\ job.seen = balance[u]
        /\ job.bonusTo = (IF due THEN Referrer[u] ELSE NoUser)
        /\ job.bonusSeen = (IF due THEN balance[Referrer[u]] ELSE 0)
    OBVIOUS
  <1> HIDE DEF job
  <1>7. /\ job \in AnyCall /\ job.pc # "tell"
        /\ job.deposit \in DOMAIN deposit
        /\ deposit[job.deposit].status \notin Processed
        /\ deposit[job.deposit].user = job.user /\ deposit[job.deposit].points = job.points
        /\ job.status = "CREDITED" => job.seen = balance[job.user]
    BY <1>1, <1>5, <1>6 DEF AnyCall
  <1>8. job.bonusTo # NoUser =>
          /\ job.status = "CREDITED"
          /\ job.bonusTo = Referrer[job.user] /\ referral[job.user] = "COMPLETED"
          /\ job.bonusSeen = balance[job.bonusTo] /\ active[job.bonusTo]
    BY <1>6
  <1> QED
    BY <1>1, <1>7, <1>8, CallFrame

LEMMA ReadersKeepInv ==
  ASSUME DepInv, NEW c \in Call,
         \/ AbortProcess(c)
         \/ \E d \in Deposit : CheckPickedUp(c, d)
         \/ \E u \in Toggled : ReadUserStatus(c, u)
  PROVE  DepInv'
  <1>1. CASE AbortProcess(c)
    <2>1. Free \in AnyCall /\ Free.pc = "free"
      BY DEF AnyCall, Free
    <2> QED
      BY <1>1, <2>1, CallFrame DEF AbortProcess
  <1>2. ASSUME NEW d \in Deposit, CheckPickedUp(c, d) PROVE DepInv'
    <2>1. [pc |-> "pickup", deposit |-> d] \in AnyCall
      BY DEF AnyCall, PickupJob
    <2> QED
      BY <1>2, <2>1, CallFrame DEF CheckPickedUp
  <1>3. ASSUME NEW u \in Toggled, ReadUserStatus(c, u) PROVE DepInv'
    <2>1. u \in User /\ active[u] \in BOOLEAN
      BY DepositAssumption DEF DepInv, DepTypeOK
    <2>2. [pc |-> "toggle", user |-> u, seen |-> active[u]] \in AnyCall
      BY <2>1 DEF AnyCall, ToggleJob
    <2> QED
      BY <1>3, <2>2, CallFrame DEF ReadUserStatus
  <1> QED
    BY <1>1, <1>2, <1>3

-----------------------------------------------------------------------------
(* Requests that write no points *)

LEMMA TellKeepsInv ==
  ASSUME DepInv, NEW c \in Call, Tell(c)
  PROVE  DepInv'
  <1>0. call \in [Call -> AnyCall] /\ DepTypeOK /\ DataFacts /\ CallFacts
    BY Halves DEF DepTypeOK, AnyCall
  <1>1. PICK told \in SUBSET ({call[c].credit} \cup call[c].bonus) :
          noticed' = noticed \cup told
    BY DEF Tell
  <1>2. /\ call[c].pc = "tell" /\ call' = [call EXCEPT ![c] = Free]
        /\ UNCHANGED <<balance, txn, deposit, referral, active, origin>>
    BY DEF Tell
  <1>3. call'[c] = Free /\ \A q \in Call \ {c} : call'[q] = call[q]
    BY <1>0, <1>2
  <1>4. told \subseteq DOMAIN txn
    BY <1>0, <1>1, <1>2 DEF CallFacts, ToldAfterCommit, DepTypeOK
  <1>5. DepTypeOK'
    <2>1. call' \in [Call -> AnyCall]
      BY <1>0, <1>2 DEF AnyCall
    <2>2. noticed' \subseteq TxnId
      BY <1>0, <1>1, <1>4 DEF DepTypeOK, LedgerTypeOK
    <2> QED
      BY <1>0, <1>2, <2>1, <2>2 DEF DepTypeOK, LedgerTypeOK, AnyCall
  <1>6. ToldOfCreditedPoints'
    BY <1>0, <1>1, <1>2, <1>4 DEF DataFacts, ToldOfCreditedPoints
  <1>7. /\ CreditedHasRow' /\ BonusFollowsCredit' /\ RowsHaveOrigin' /\ OneBonusRow'
        /\ ReferralsKnown'
    BY <1>0, <1>2 DEF DataFacts, CreditedHasRow, BonusFollowsCredit, RowsHaveOrigin,
                      OneBonusRow, BonusRows, ReferralsKnown, CreditRows, Atomic!IsBonus
  <1>8. SnapshotsHold' /\ ToldAfterCommit' /\ PickupsKnown'
    BY <1>0, <1>2, <1>3 DEF CallFacts, SnapshotsHold, ToldAfterCommit, PickupsKnown, Free
  <1> QED
    BY <1>5, <1>6, <1>7, <1>8 DEF DepInv

LEMMA SubmitKeepsInv ==
  ASSUME DepInv, NEW u \in User, NEW d \in Deposit, NEW points \in Points,
         Submit(u, d, points)
  PROVE  DepInv'
  <1>0. DepTypeOK /\ DataFacts /\ CallFacts
    BY Halves
  <1> DEFINE new == [status |-> "PENDING", user |-> u, points |-> points]
  <1>1. /\ d \notin DOMAIN deposit
        /\ deposit' = Insert(deposit, d, new)
        /\ UNCHANGED <<balance, txn, noticed, referral, active, origin, call>>
    BY DEF Submit
  <1>2. /\ DOMAIN deposit' = DOMAIN deposit \cup {d}
        /\ deposit'[d] = new
        /\ \A e \in DOMAIN deposit : deposit'[e] = deposit[e]
    BY <1>1 DEF Insert
  <1>3. DepTypeOK'
    <2>1. new \in [status : DepositStatus, user : User, points : Nat]
      BY DepositAssumption DEF DepositStatus
    <2>2. deposit' \in [DOMAIN deposit' -> [status : DepositStatus, user : User, points : Nat]]
      BY <1>0, <1>1, <2>1 DEF DepTypeOK, Insert
    <2> QED
      BY <1>0, <1>1, <1>2, <2>2 DEF DepTypeOK, LedgerTypeOK
  <1>4. CreditedHasRow'
    <2> SUFFICES ASSUME NEW e \in DOMAIN deposit', deposit'[e].status = "CREDITED"
                 PROVE  \E t \in CreditRows(e)' : /\ txn[t].user = deposit'[e].user
                                                  /\ txn[t].amount = deposit'[e].points
      BY <1>1 DEF CreditedHasRow
    <2>1. e \in DOMAIN deposit /\ deposit'[e] = deposit[e]
      BY <1>2
    <2> QED
      BY <1>0, <1>1, <2>1 DEF DataFacts, CreditedHasRow, CreditRows
  <1>5. RowsHaveOrigin'
    BY <1>0, <1>1, <1>2 DEF DataFacts, RowsHaveOrigin
  <1>6. OneBonusRow'
    <2>1. \A v \in User : BonusRows(v)' = BonusRows(v)
      BY <1>0, <1>1, <1>2 DEF DataFacts, RowsHaveOrigin, BonusRows
    <2> QED
      BY <1>0, <1>1, <2>1 DEF DataFacts, OneBonusRow
  <1>7. BonusFollowsCredit' /\ ToldOfCreditedPoints' /\ ReferralsKnown'
    BY <1>0, <1>1 DEF DataFacts, BonusFollowsCredit, CreditRows, Atomic!IsBonus,
                      ToldOfCreditedPoints, ReferralsKnown
  <1>8. SnapshotsHold' /\ ToldAfterCommit' /\ PickupsKnown'
    BY <1>0, <1>1, <1>2 DEF CallFacts, SnapshotsHold, ToldAfterCommit, PickupsKnown
  <1> QED
    BY <1>3, <1>4, <1>5, <1>6, <1>7, <1>8 DEF DepInv

\* A status that is not CREDITED makes no difference to the rows.
LEMMA StatusKeepsData ==
  ASSUME DepTypeOK, DataFacts, NEW d \in DOMAIN deposit,
         NEW status \in DepositStatus \ {"CREDITED"},
         deposit' = [deposit EXCEPT ![d].status = status],
         UNCHANGED <<txn, noticed, referral, origin>>
  PROVE  /\ DataFacts'
         /\ DOMAIN deposit' = DOMAIN deposit
         /\ deposit'[d].status = status
         /\ \A e \in DOMAIN deposit : /\ e # d => deposit'[e] = deposit[e]
                                      /\ deposit'[e].user = deposit[e].user
                                      /\ deposit'[e].points = deposit[e].points
         /\ deposit' \in [DOMAIN deposit' -> [status : DepositStatus, user : User, points : Nat]]
  <1>1. /\ DOMAIN deposit' = DOMAIN deposit
        /\ deposit'[d].status = status
        /\ \A e \in DOMAIN deposit : /\ e # d => deposit'[e] = deposit[e]
                                     /\ deposit'[e].user = deposit[e].user
                                     /\ deposit'[e].points = deposit[e].points
        /\ deposit' \in [DOMAIN deposit' -> [status : DepositStatus, user : User, points : Nat]]
    BY DEF DepTypeOK
  <1>2. CreditedHasRow'
    <2> SUFFICES ASSUME NEW e \in DOMAIN deposit', deposit'[e].status = "CREDITED"
                 PROVE  \E t \in CreditRows(e)' : /\ txn[t].user = deposit'[e].user
                                                  /\ txn[t].amount = deposit'[e].points
      BY DEF CreditedHasRow
    <2>1. e \in DOMAIN deposit /\ deposit'[e] = deposit[e]
      BY <1>1
    <2> QED
      BY <2>1 DEF DataFacts, CreditedHasRow, CreditRows
  <1>3. RowsHaveOrigin'
    BY <1>1 DEF DataFacts, RowsHaveOrigin
  <1>4. OneBonusRow'
    <2>1. \A v \in User : BonusRows(v)' = BonusRows(v)
      BY <1>1 DEF DataFacts, RowsHaveOrigin, BonusRows
    <2> QED
      BY <2>1 DEF DataFacts, OneBonusRow
  <1>5. BonusFollowsCredit' /\ ToldOfCreditedPoints' /\ ReferralsKnown'
    BY DEF DataFacts, BonusFollowsCredit, CreditRows, Atomic!IsBonus, ToldOfCreditedPoints,
           ReferralsKnown
  <1> QED
    BY <1>1, <1>2, <1>3, <1>4, <1>5 DEF DataFacts

\* The writes of the pickup handlers doom the transactions that decide the deposit.
LEMMA WriteStatusKeepsInv ==
  ASSUME DepInv, NEW d \in DOMAIN deposit, NEW status \in DepositStatus \ {"CREDITED"},
         NEW calls \in [Call -> AnyCall],
         \A q \in Call : calls[q] \in {call[q], Free},
         WriteStatus(d, status, calls)
  PROVE  DepInv'
  <1>0. call \in [Call -> AnyCall] /\ DepTypeOK /\ DataFacts /\ CallFacts
    BY Halves DEF DepTypeOK, AnyCall
  <1>1. /\ deposit' = [deposit EXCEPT ![d].status = status]
        /\ call' = Touch(calls, {DepositDoc(d)})
        /\ UNCHANGED <<balance, txn, noticed, referral, active, origin>>
    BY DEF WriteStatus
  <1>2. /\ DataFacts'
        /\ DOMAIN deposit' = DOMAIN deposit
        /\ \A e \in DOMAIN deposit : /\ e # d => deposit'[e] = deposit[e]
                                     /\ deposit'[e].user = deposit[e].user
                                     /\ deposit'[e].points = deposit[e].points
        /\ deposit' \in [DOMAIN deposit' -> [status : DepositStatus, user : User, points : Nat]]
    BY <1>0, <1>1, StatusKeepsData
  <1>3. /\ call' \in [Call -> AnyCall]
        /\ \A q \in Call : call'[q] \in {call[q], Free, Doomed}
        /\ \A q \in Call : call'[q].pc = "process" =>
             call'[q] = call[q] /\ DepositDoc(d) \notin Written(call[q])
    <2>1. /\ call' \in [Call -> AnyCall]
          /\ \A q \in Call : call'[q] \in {calls[q], Doomed}
          /\ \A q \in Call : call'[q].pc = "process" =>
               call'[q] = calls[q] /\ Written(calls[q]) \cap {DepositDoc(d)} = {}
      <3>1. /\ Touch(calls, {DepositDoc(d)}) \in [Call -> AnyCall]
            /\ \A q \in Call : Touch(calls, {DepositDoc(d)})[q] \in {calls[q], Doomed}
            /\ \A q \in Call : Touch(calls, {DepositDoc(d)})[q].pc = "process" =>
                 /\ Touch(calls, {DepositDoc(d)})[q] = calls[q]
                 /\ Written(calls[q]) \cap {DepositDoc(d)} = {}
        BY ONLY TouchFacts, calls \in [Call -> AnyCall]
      <3> QED
        BY ONLY <1>1, <3>1
    <2>2. ASSUME NEW q \in Call, call'[q].pc = "process"
          PROVE  call'[q] = call[q] /\ DepositDoc(d) \notin Written(call[q])
      <3>1. calls[q] # Free
        BY <2>1, <2>2 DEF Free
      <3> QED
        BY <2>1, <2>2, <3>1
    <2> QED
      BY <2>1, <2>2
  <1>4. DepTypeOK'
    BY <1>0, <1>1, <1>2, <1>3 DEF DepTypeOK, LedgerTypeOK, AnyCall
  <1>5. SnapshotsHold'
    <2> SUFFICES ASSUME NEW q \in Call, call'[q].pc = "process"
                 PROVE  LET job == call'[q] IN
                        /\ job.deposit \in DOMAIN deposit'
                        /\ deposit'[job.deposit].status \notin Processed
                        /\ deposit'[job.deposit].user = job.user
                        /\ deposit'[job.deposit].points = job.points
                        /\ job.status = "CREDITED" => job.seen = balance[job.user]
                        /\ job.bonusTo # NoUser =>
                             /\ job.status = "CREDITED"
                             /\ job.bonusTo = Referrer[job.user]
                             /\ referral[job.user] = "COMPLETED"
                             /\ job.bonusSeen = balance[job.bonusTo] /\ active[job.bonusTo]
      BY <1>1 DEF SnapshotsHold
    <2>1. call'[q] = call[q] /\ call[q].deposit # d
      BY <1>3 DEF Written
    <2>2. call[q].deposit \in DOMAIN deposit
      BY <1>0, <2>1 DEF CallFacts, SnapshotsHold
    <2>3. deposit'[call[q].deposit] = deposit[call[q].deposit]
      BY <1>2, <2>1, <2>2
    <2> QED
      BY <1>0, <1>2, <2>1, <2>2, <2>3 DEF CallFacts, SnapshotsHold
  <1>6. ToldAfterCommit' /\ PickupsKnown'
    <2>1. \A q \in Call : call'[q].pc \in {"tell", "pickup"} => call'[q] = call[q]
      BY <1>3 DEF Free, Doomed
    <2> QED
      BY <1>0, <1>1, <1>2, <2>1 DEF CallFacts, ToldAfterCommit, PickupsKnown
  <1> QED
    BY <1>2, <1>4, <1>5, <1>6, Halves DEF CallFacts, DataFacts, DepInv

LEMMA PickupKeepsInv == ASSUME DepInv, Pickup PROVE DepInv'
  <1>0. call \in [Call -> AnyCall]
    BY DEF DepInv, DepTypeOK, AnyCall
  <1>1. ASSUME NEW d \in Deposit, SchedulePickup(d) \/ MarkPickupArrived(d) PROVE DepInv'
    BY <1>0, <1>1, WriteStatusKeepsInv
    DEF SchedulePickup, MarkPickupArrived, DepositStatus, Processed
  <1>2. ASSUME NEW c \in Call, NEW d \in Deposit, CheckPickedUp(c, d) PROVE DepInv'
    BY <1>2, ReadersKeepInv
  <1>3. ASSUME NEW c \in Call, MarkPickedUp(c) PROVE DepInv'
    <2> DEFINE calls == [call EXCEPT ![c] = Free]
    <2>1. calls \in [Call -> AnyCall] /\ \A q \in Call : calls[q] \in {call[q], Free}
      BY <1>0 DEF AnyCall
    <2>2. WriteStatus(call[c].deposit, "PICKED_UP", calls)
      BY <1>3 DEF MarkPickedUp
    <2>3. call[c].deposit \in DOMAIN deposit
      BY <1>3 DEF MarkPickedUp, DepInv, PickupsKnown
    <2> HIDE DEF calls
    <2> QED
      BY <2>1, <2>2, <2>3, WriteStatusKeepsInv DEF DepositStatus, Processed
  <1> QED
    BY <1>1, <1>2, <1>3 DEF Pickup

LEMMA ToggleKeepsInv ==
  ASSUME DepInv, NEW c \in Call, ToggleUserStatus(c)
  PROVE  DepInv'
  <1>0. call \in [Call -> AnyCall] /\ DepTypeOK /\ DataFacts /\ CallFacts
    BY Halves DEF DepTypeOK, AnyCall
  <1> DEFINE job   == call[c]
             calls == [call EXCEPT ![c] = Free]
  <1>1. /\ job.pc = "toggle"
        /\ active' = [active EXCEPT ![job.user] = ~job.seen]
        /\ call' = Touch(calls, {UserDoc(job.user)})
        /\ UNCHANGED <<balance, txn, noticed, deposit, referral, origin>>
    BY DEF ToggleUserStatus
  <1>2. calls \in [Call -> AnyCall] /\ \A q \in Call : calls[q] \in {call[q], Free}
    BY <1>0 DEF AnyCall
  <1> HIDE DEF calls
  <1>3. /\ call' \in [Call -> AnyCall]
        /\ \A q \in Call : call'[q] \in {calls[q], Doomed}
        /\ \A q \in Call : call'[q].pc = "process" =>
             call'[q] = calls[q] /\ Written(calls[q]) \cap {UserDoc(job.user)} = {}
    <2> DEFINE touched == Touch(calls, {UserDoc(job.user)})
    <2>1. /\ touched \in [Call -> AnyCall]
          /\ \A q \in Call : touched[q] \in {calls[q], Doomed}
          /\ \A q \in Call : touched[q].pc = "process" =>
               touched[q] = calls[q] /\ Written(calls[q]) \cap {UserDoc(job.user)} = {}
      BY <1>2, TouchFacts
    <2> QED
      BY <1>1, <2>1
  <1>4. DepTypeOK'
    <2>1. active' \in [User -> BOOLEAN]
      BY <1>0, <1>1 DEF DepTypeOK
    <2> QED
      BY <1>0, <1>1, <1>3, <2>1 DEF DepTypeOK, LedgerTypeOK, AnyCall
  <1>5. DataFacts'
    BY <1>0, <1>1 DEF DataFacts, CreditedHasRow, ToldOfCreditedPoints, BonusFollowsCredit,
                      RowsHaveOrigin, OneBonusRow, BonusRows, ReferralsKnown, CreditRows,
                      Atomic!IsBonus
  <1>6. SnapshotsHold'
    <2> SUFFICES ASSUME NEW q \in Call, call'[q].pc = "process"
                 PROVE  /\ call'[q] = call[q]
                        /\ call[q].bonusTo # NoUser => active'[call[q].bonusTo] = active[call[q].bonusTo]
      <3>1. \A q \in Call : call[q].pc = "process" =>
              /\ call[q].deposit \in DOMAIN deposit'
              /\ deposit'[call[q].deposit].status \notin Processed
              /\ deposit'[call[q].deposit].user = call[q].user
              /\ deposit'[call[q].deposit].points = call[q].points
              /\ call[q].status = "CREDITED" => call[q].seen = balance'[call[q].user]
              /\ call[q].bonusTo # NoUser =>
                   /\ call[q].status = "CREDITED"
                   /\ call[q].bonusTo = Referrer[call[q].user]
                   /\ referral'[call[q].user] = "COMPLETED"
                   /\ call[q].bonusSeen = balance'[call[q].bonusTo]
                   /\ active[call[q].bonusTo]
        BY <1>0, <1>1 DEF CallFacts, SnapshotsHold
      <3> QED
        BY <3>1 DEF SnapshotsHold
    <2>1. call'[q] = call[q] /\ UserDoc(job.user) \notin Written(call[q])
      BY <1>2, <1>3 DEF Free
    <2>2. call[q].bonusTo # NoUser => call[q].bonusTo # job.user
      BY <2>1 DEF Written
    <2>3. call[q].bonusTo # NoUser => call[q].bonusTo \in User
      BY <1>0, <2>1, CallKinds DEF ProcessJob
    <2> QED
      BY <1>0, <1>1, <2>1, <2>2, <2>3 DEF DepTypeOK
  <1>7. ToldAfterCommit' /\ PickupsKnown'
    <2>1. \A q \in Call : call'[q].pc \in {"tell", "pickup"} => call'[q] = call[q]
      BY <1>2, <1>3 DEF Free, Doomed
    <2> QED
      BY <1>0, <1>1, <2>1 DEF CallFacts, ToldAfterCommit, PickupsKnown
  <1> QED
    BY <1>4, <1>5, <1>6, <1>7, Halves DEF CallFacts, DataFacts, DepInv

-----------------------------------------------------------------------------
(* The commits *)

\* What the job of an open transaction holds.
LEMMA JobFacts ==
  ASSUME DepInv, NEW c \in Call, call[c].pc = "process"
  PROVE  /\ call[c] \in ProcessJob
         /\ call[c].deposit \in DOMAIN deposit
         /\ deposit[call[c].deposit].status \notin Processed
         /\ deposit[call[c].deposit].user = call[c].user
         /\ deposit[call[c].deposit].points = call[c].points
         /\ call[c].user \in User /\ call[c].points \in Nat /\ call[c].seen \in Int
         /\ call[c].status \in Processed /\ call[c].bonusSeen \in Int
         /\ call[c].status = "CREDITED" => call[c].seen = balance[call[c].user]
         /\ call[c].bonusTo # NoUser =>
              /\ call[c].status = "CREDITED"
              /\ call[c].bonusTo \in User /\ call[c].bonusTo = Referrer[call[c].user]
              /\ call[c].bonusTo # call[c].user
              /\ referral[call[c].user] = "COMPLETED"
              /\ call[c].bonusSeen = balance[call[c].bonusTo] /\ active[call[c].bonusTo]
  <1>1. call \in [Call -> AnyCall]
    BY DEF DepInv, DepTypeOK, AnyCall
  <1>2. call[c] \in ProcessJob
    BY <1>1, CallKinds
  <1> QED
    BY <1>2, DepositAssumption DEF ProcessJob, DepInv, SnapshotsHold

\* After a commit the other open transactions still have good snapshots: those it
\* could have disturbed are doomed.
LEMMA CommitKeepsCalls ==
  ASSUME DepInv, NEW c \in Call, call[c].pc = "process",
         NEW x \in AnyCall, x.pc \notin {"process", "pickup"},
         x.pc = "tell" => {x.credit} \cup x.bonus \subseteq DOMAIN origin',
         call' = Touch([call EXCEPT ![c] = x], Written(call[c])),
         deposit' = [deposit EXCEPT ![call[c].deposit].status = call[c].status],
         DOMAIN origin \subseteq DOMAIN origin', UNCHANGED active,
         \A u \in User : UserDoc(u) \notin Written(call[c]) => balance'[u] = balance[u],
         \A u \in User : ReferralDoc(u) \notin Written(call[c]) => referral'[u] = referral[u]
  PROVE  CallFacts' /\ call' \in [Call -> AnyCall]
  <1>0. call \in [Call -> AnyCall] /\ DepTypeOK /\ CallFacts
    BY Halves DEF DepTypeOK, AnyCall
  <1> DEFINE job   == call[c]
             calls == [call EXCEPT ![c] = x]
  <1>1. calls \in [Call -> AnyCall] /\ calls[c] = x /\ \A q \in Call \ {c} : calls[q] = call[q]
    BY <1>0
  <1>2. call' = Touch(calls, Written(job))
    OBVIOUS
  <1> HIDE DEF calls
  <1>3. /\ call' \in [Call -> AnyCall]
        /\ \A q \in Call : call'[q] \in {calls[q], Doomed}
        /\ \A q \in Call : call'[q].pc = "process" =>
             call'[q] = calls[q] /\ Written(calls[q]) \cap Written(job) = {}
    <2> DEFINE touched == Touch(calls, Written(job))
    <2>1. /\ touched \in [Call -> AnyCall]
          /\ \A q \in Call : touched[q] \in {calls[q], Doomed}
          /\ \A q \in Call : touched[q].pc = "process" =>
               touched[q] = calls[q] /\ Written(calls[q]) \cap Written(job) = {}
      BY <1>1, TouchFacts
    <2> QED
      BY <1>2, <2>1
  <1>4. /\ DOMAIN deposit' = DOMAIN deposit
        /\ \A d \in DOMAIN deposit : d # job.deposit => deposit'[d] = deposit[d]
    BY <1>0 DEF DepTypeOK
  <1>5. SnapshotsHold'
    <2> SUFFICES ASSUME NEW q \in Call, call'[q].pc = "process"
                 PROVE  LET other == call'[q] IN
                        /\ other.deposit \in DOMAIN deposit'
                        /\ deposit'[other.deposit].status \notin Processed
                        /\ deposit'[other.deposit].user = other.user
                        /\ deposit'[other.deposit].points = other.points
                        /\ other.status = "CREDITED" => other.seen = balance'[other.user]
                        /\ other.bonusTo # NoUser =>
                             /\ other.status = "CREDITED"
                             /\ other.bonusTo = Referrer[other.user]
                             /\ referral'[other.user] = "COMPLETED"
                             /\ other.bonusSeen = balance'[other.bonusTo]
                             /\ active'[other.bonusTo]
      BY DEF SnapshotsHold
    <2>1. /\ call'[q] = call[q] /\ q # c
          /\ Written(call[q]) \cap Written(job) = {}
      BY <1>1, <1>3
    <2>2. call[q].deposit # job.deposit
      BY <2>1 DEF Written
    <2>3. deposit'[call[q].deposit] = deposit[call[q].deposit]
      BY <1>4, <2>1, <2>2, JobFacts
    <2>4. call[q].status = "CREDITED" => balance'[call[q].user] = balance[call[q].user]
      <3>1. call[q].status = "CREDITED" => UserDoc(call[q].user) \in Written(call[q])
        BY DEF Written
      <3> QED
        BY <2>1, <3>1, JobFacts
    <2>5. call[q].bonusTo # NoUser =>
            /\ balance'[call[q].bonusTo] = balance[call[q].bonusTo]
            /\ referral'[call[q].user] = referral[call[q].user]
      <3>1. call[q].bonusTo # NoUser =>
              {UserDoc(call[q].bonusTo), ReferralDoc(call[q].user)} \subseteq Written(call[q])
        BY DEF Written
      <3> QED
        BY <2>1, <3>1, JobFacts
    <2>6. /\ call[q].deposit \in DOMAIN deposit
          /\ deposit[call[q].deposit].status \notin Processed
          /\ deposit[call[q].deposit].user = call[q].user
          /\ deposit[call[q].deposit].points = call[q].points
          /\ call[q].status = "CREDITED" => call[q].seen = balance[call[q].user]
          /\ call[q].bonusTo # NoUser =>
               /\ call[q].status = "CREDITED"
               /\ call[q].bonusTo = Referrer[call[q].user]
               /\ referral[call[q].user] = "COMPLETED"
               /\ call[q].bonusSeen = balance[call[q].bonusTo] /\ active[call[q].bonusTo]
      BY <2>1, JobFacts
    <2>7. /\ call[q].deposit \in DOMAIN deposit'
          /\ deposit'[call[q].deposit].status \notin Processed
          /\ deposit'[call[q].deposit].user = call[q].user
          /\ deposit'[call[q].deposit].points = call[q].points
      BY <1>4, <2>3, <2>6
    <2>8. call[q].status = "CREDITED" => call[q].seen = balance'[call[q].user]
      BY <2>4, <2>6
    <2>9. call[q].bonusTo # NoUser =>
            /\ call[q].status = "CREDITED"
            /\ call[q].bonusTo = Referrer[call[q].user]
            /\ referral'[call[q].user] = "COMPLETED"
            /\ call[q].bonusSeen = balance'[call[q].bonusTo] /\ active'[call[q].bonusTo]
      BY <2>5, <2>6
    <2> QED
      BY SMTT(20), <2>1, <2>7, <2>8, <2>9
  <1>6. ToldAfterCommit' /\ PickupsKnown'
    <2>1. \A q \in Call : call'[q].pc \in {"tell", "pickup"} => call'[q] = calls[q]
      BY <1>3, RestFacts
    <2>2. \A q \in Call : call'[q].pc = "tell" =>
            {call'[q].credit} \cup call'[q].bonus \subseteq DOMAIN origin'
      <3> SUFFICES ASSUME NEW q \in Call, call'[q].pc = "tell"
                   PROVE  {call'[q].credit} \cup call'[q].bonus \subseteq DOMAIN origin'
        OBVIOUS
      <3>1. call'[q] = calls[q]
        BY <2>1
      <3>2. CASE q = c
        BY <1>1, <3>1, <3>2
      <3>3. CASE q # c
        <4>1. call'[q] = call[q]
          BY <1>1, <3>1, <3>3
        <4> QED
          BY <1>0, <4>1 DEF CallFacts, ToldAfterCommit
      <3> QED
        BY <3>2, <3>3
    <2>3. \A q \in Call : call'[q].pc = "pickup" => call'[q].deposit \in DOMAIN deposit'
      <3> SUFFICES ASSUME NEW q \in Call, call'[q].pc = "pickup"
                   PROVE  call'[q].deposit \in DOMAIN deposit
        BY <1>4
      <3>1. call'[q] = calls[q] /\ q # c
        BY <1>1, <2>1
      <3>2. call'[q] = call[q]
        BY <1>1, <3>1
      <3> QED
        BY <1>0, <3>2 DEF CallFacts, PickupsKnown
    <2> QED
      BY <2>2, <2>3 DEF ToldAfterCommit, PickupsKnown
  <1> QED
    BY <1>3, <1>5, <1>6 DEF CallFacts

LEMMA CommitRejectKeepsInv ==
  ASSUME DepInv, NEW c \in Call, CommitReject(c)
  PROVE  DepInv'
  <1>0. DepTypeOK /\ DataFacts
    BY Halves
  <1>1. /\ call[c].pc = "process" /\ call[c].status = "REJECTED"
        /\ deposit' = [deposit EXCEPT ![call[c].deposit].status = "REJECTED"]
        /\ call' = Touch([call EXCEPT ![c] = Free], Written(call[c]))
        /\ UNCHANGED <<balance, txn, noticed, referral, active, origin>>
    BY DEF CommitReject, Decide
  <1>2. call[c].deposit \in DOMAIN deposit
    BY <1>1, JobFacts
  <1>3. DataFacts' /\ deposit' \in [DOMAIN deposit' -> [status : DepositStatus, user : User, points : Nat]]
          /\ DOMAIN deposit' = DOMAIN deposit
    BY <1>0, <1>1, <1>2, StatusKeepsData DEF DepositStatus, Processed
  <1>4. Free \in AnyCall /\ Free.pc = "free"
    BY DEF AnyCall, Free
  <1>5. CallFacts' /\ call' \in [Call -> AnyCall]
    BY <1>1, <1>4, CommitKeepsCalls
  <1>6. DepTypeOK'
    BY <1>0, <1>1, <1>3, <1>5 DEF DepTypeOK, LedgerTypeOK, AnyCall
  <1> QED
    BY <1>3, <1>5, <1>6, Halves DEF CallFacts, DataFacts, DepInv

LEMMA InsertType ==
  ASSUME NEW S, NEW f, f \in [DOMAIN f -> S], NEW k, NEW v \in S
  PROVE  Insert(f, k, v) \in [DOMAIN f \cup {k} -> S]
  BY DEF Insert

\* The rows of a credit of d: t of its owner's points, the others of the bonus.
LEMMA RowsAdded ==
  ASSUME DepTypeOK, DataFacts, NEW d \in DOMAIN deposit, NEW rows, NEW t \in rows,
         rows \cap DOMAIN txn = {},
         DOMAIN txn' = DOMAIN txn \cup rows, DOMAIN origin' = DOMAIN origin \cup rows,
         \A x \in DOMAIN txn : txn'[x] = txn[x],
         \A x \in DOMAIN origin : origin'[x] = origin[x],
         \A x \in rows : origin'[x] = d /\ txn'[x].status = "COMPLETED",
         txn'[t].type = "DEPOSIT", txn'[t].user = deposit[d].user,
         txn'[t].amount = deposit[d].points,
         \A x \in rows \ {t} : /\ txn'[x].type = "REFERRAL"
                               /\ txn'[x].user = Referrer[deposit[d].user]
                               /\ Atomic!IsBonus(txn'[x].amount, deposit[d].points),
         DOMAIN deposit' = DOMAIN deposit,
         \A e \in DOMAIN deposit : /\ e # d => deposit'[e] = deposit[e]
                                  /\ deposit'[e].user = deposit[e].user
                                  /\ deposit'[e].points = deposit[e].points,
         UNCHANGED noticed
  PROVE  /\ CreditedHasRow' /\ ToldOfCreditedPoints' /\ BonusFollowsCredit' /\ RowsHaveOrigin'
         /\ \A u \in User : BonusRows(u)' =
              BonusRows(u) \cup (IF u = deposit[d].user THEN rows \ {t} ELSE {})
  <1>1. /\ DOMAIN origin \subseteq DOMAIN txn /\ t \notin DOMAIN txn /\ t \in DOMAIN origin'
        /\ \A x \in DOMAIN origin : origin[x] \in DOMAIN deposit /\ txn'[x] = txn[x]
    BY DEF DataFacts, RowsHaveOrigin
  <1>2. t \in CreditRows(d)'
    BY <1>1 DEF CreditRows
  <1>3. \A e : \A x \in CreditRows(e) : x \in CreditRows(e)' /\ txn'[x] = txn[x]
    BY <1>1 DEF CreditRows
  <1>4. CreditedHasRow'
    <2> SUFFICES ASSUME NEW e \in DOMAIN deposit, deposit'[e].status = "CREDITED"
                 PROVE  \E x \in CreditRows(e)' : /\ txn'[x].user = deposit'[e].user
                                                  /\ txn'[x].amount = deposit'[e].points
      BY DEF CreditedHasRow
    <2>1. CASE e = d
      BY <1>2, <2>1
    <2>2. CASE e # d
      <3>1. PICK x \in CreditRows(e) : /\ txn[x].user = deposit[e].user
                                       /\ txn[x].amount = deposit[e].points
        BY <2>2 DEF DataFacts, CreditedHasRow
      <3> QED
        BY <1>3, <3>1
    <2> QED
      BY <2>1, <2>2
  <1>5. ToldOfCreditedPoints'
    BY DEF DataFacts, ToldOfCreditedPoints
  <1>6. BonusFollowsCredit'
    <2> SUFFICES ASSUME NEW b \in DOMAIN origin', txn'[b].type = "REFERRAL"
                 PROVE  \E x \in CreditRows(origin[b])' :
                          /\ txn'[b].user = Referrer[txn'[x].user]
                          /\ Atomic!IsBonus(txn'[b].amount, txn'[x].amount)
      BY DEF BonusFollowsCredit, Atomic!IsBonus
    <2>1. CASE b \in rows
      BY <1>2, <2>1
    <2>2. CASE b \in DOMAIN origin
      <3>1. PICK x \in CreditRows(origin[b]) : /\ txn[b].user = Referrer[txn[x].user]
                                               /\ Atomic!IsBonus(txn[b].amount, txn[x].amount)
        BY <1>1, <2>2 DEF DataFacts, BonusFollowsCredit
      <3>2. origin'[b] = origin[b] /\ txn'[b] = txn[b] /\ txn'[x] = txn[x]
        BY <1>1, <1>3, <2>2, <3>1
      <3>3. x \in DOMAIN origin' /\ origin'[x] = origin'[b] /\ txn'[x].type = "DEPOSIT"
        BY <1>1, <3>1, <3>2 DEF CreditRows
      <3> QED
        BY <3>1, <3>2, <3>3 DEF CreditRows
    <2> QED
      BY <2>1, <2>2
  <1>7. RowsHaveOrigin'
    <2>1. ASSUME NEW x \in DOMAIN origin'
          PROVE  /\ txn'[x].type \in CreditType /\ txn'[x].status = "COMPLETED"
                 /\ origin'[x] \in DOMAIN deposit'
                 /\ txn'[x].type = "DEPOSIT" => txn'[x].user = deposit'[origin'[x]].user
      <3>1. CASE x \in rows
        BY <3>1 DEF CreditType
      <3>2. CASE x \in DOMAIN origin
        BY <1>1, <3>2 DEF DataFacts, RowsHaveOrigin
      <3> QED
        BY <3>1, <3>2
    <2>2. ASSUME NEW x \in DOMAIN txn', txn'[x].type \in CreditType PROVE x \in DOMAIN origin'
      BY <2>2 DEF DataFacts, RowsHaveOrigin
    <2>3. DOMAIN origin' \subseteq DOMAIN txn'
      BY <1>1
    <2> QED
      BY <2>1, <2>2, <2>3 DEF RowsHaveOrigin
  <1>8. ASSUME NEW u \in User
        PROVE  BonusRows(u)' = BonusRows(u) \cup (IF u = deposit[d].user THEN rows \ {t} ELSE {})
    <2>1. \A x \in DOMAIN origin : x \in BonusRows(u)' <=> x \in BonusRows(u)
      BY <1>1 DEF BonusRows
    <2>2. \A x \in rows : x \in BonusRows(u)' <=> x # t /\ u = deposit[d].user
      BY DEF BonusRows
    <2>3. BonusRows(u) \subseteq DOMAIN origin /\ BonusRows(u)' \subseteq DOMAIN origin \cup rows
      BY <1>1 DEF BonusRows
    <2> QED
      BY <2>1, <2>2, <2>3
  <1> QED
    BY <1>4, <1>5, <1>6, <1>7, <1>8

LEMMA CreditRowType ==
  ASSUME NEW user \in User, NEW type \in CreditType, NEW amount \in Nat, NEW seen \in Int
  PROVE  /\ CreditRow(user, type, amount, seen) \in Row
         /\ CreditRow(user, type, amount, seen).type = type
         /\ CreditRow(user, type, amount, seen).user = user
         /\ CreditRow(user, type, amount, seen).amount = amount
         /\ CreditRow(user, type, amount, seen).status = "COMPLETED"
         /\ CreditRow(user, type, amount, seen).before = seen
         /\ CreditRow(user, type, amount, seen).after = seen + amount
  BY DEF CreditRow, Row, RowStatus

\* What both kinds of credit do to the deposit.
LEMMA DecideFacts ==
  ASSUME DepInv, NEW c \in Call, call[c].pc = "process", Decide(call[c])
  PROVE  /\ DOMAIN deposit' = DOMAIN deposit
         /\ deposit'[call[c].deposit].status = call[c].status
         /\ \A e \in DOMAIN deposit : /\ e # call[c].deposit => deposit'[e] = deposit[e]
                                      /\ deposit'[e].user = deposit[e].user
                                      /\ deposit'[e].points = deposit[e].points
         /\ deposit' \in [DOMAIN deposit' -> [status : DepositStatus, user : User, points : Nat]]
  <1>1. /\ deposit \in [DOMAIN deposit -> [status : DepositStatus, user : User, points : Nat]]
        /\ call[c].deposit \in DOMAIN deposit /\ call[c].status \in DepositStatus
    BY JobFacts DEF DepInv, DepTypeOK, DepositStatus
  <1>2. deposit' = [deposit EXCEPT ![call[c].deposit].status = call[c].status]
    BY DEF Decide
  <1> QED
    BY <1>1, <1>2

LEMMA CommitCreditKeepsInv ==
  ASSUME DepInv, NEW c \in Call, NEW t \in TxnId, CommitCredit(c, t)
  PROVE  DepInv'
  <1> DEFINE job == call[c]
             row == CreditRow(job.user, "DEPOSIT", job.points, job.seen)
             told == [pc |-> "tell", credit |-> t, bonus |-> {}]
  <1>1. /\ job.pc = "process" /\ job.status = "CREDITED" /\ job.bonusTo = NoUser
        /\ t \notin DOMAIN txn /\ Decide(job)
        /\ balance' = [balance EXCEPT ![job.user] = job.seen + job.points]
        /\ txn' = Insert(txn, t, row) /\ origin' = Insert(origin, t, job.deposit)
        /\ call' = Touch([call EXCEPT ![c] = told], Written(job))
        /\ UNCHANGED <<noticed, referral, active>>
    BY DEF CommitCredit, WithRow
  <1>2. DepTypeOK /\ DataFacts
    BY Halves
  <1>3. /\ job.deposit \in DOMAIN deposit /\ job.deposit \in Deposit
        /\ deposit[job.deposit].user = job.user /\ deposit[job.deposit].points = job.points
        /\ job.user \in User /\ job.points \in Nat /\ job.seen \in Int
    BY <1>1, JobFacts DEF ProcessJob
  <1>4. /\ row \in Row /\ row.type = "DEPOSIT" /\ row.user = job.user
        /\ row.amount = job.points /\ row.status = "COMPLETED"
    <2>1. "DEPOSIT" \in CreditType
      BY DEF CreditType
    <2>2. row \in Row
      BY <1>3, <2>1, CreditRowType, ZenonT(30)
    <2> QED
      BY <2>2 DEF CreditRow
  <1> HIDE DEF row
  <1>5. DOMAIN origin \subseteq DOMAIN txn
    BY <1>2 DEF DepTypeOK
  <1>6. /\ DOMAIN txn' = DOMAIN txn \cup {t} /\ txn'[t] = row
        /\ DOMAIN origin' = DOMAIN origin \cup {t} /\ origin'[t] = job.deposit
        /\ \A x \in DOMAIN txn : txn'[x] = txn[x]
        /\ \A x \in DOMAIN origin : origin'[x] = origin[x]
        /\ txn' \in [DOMAIN txn' -> Row] /\ origin' \in [DOMAIN origin' -> Deposit]
    <2>1. txn \in [DOMAIN txn -> Row] /\ origin \in [DOMAIN origin -> Deposit]
      BY <1>2 DEF DepTypeOK, LedgerTypeOK
    <2>2. /\ DOMAIN txn' = DOMAIN txn \cup {t} /\ txn'[t] = row
          /\ \A x \in DOMAIN txn : txn'[x] = txn[x]
          /\ txn' \in [DOMAIN txn' -> Row]
      <3>0. txn' = Insert(txn, t, row)
        BY <1>1
      <3>1. /\ DOMAIN txn' = DOMAIN txn \cup {t} /\ txn'[t] = row
            /\ \A x \in DOMAIN txn : x # t => txn'[x] = txn[x]
        BY <3>0 DEF Insert
      <3>2. txn' \in [DOMAIN txn \cup {t} -> Row]
        BY <1>1, <1>4, <2>1, InsertType
      <3> QED
        BY <1>1, <3>1, <3>2
    <2>3. /\ DOMAIN origin' = DOMAIN origin \cup {t} /\ origin'[t] = job.deposit
          /\ \A x \in DOMAIN origin : origin'[x] = origin[x]
          /\ origin' \in [DOMAIN origin' -> Deposit]
      <3>1. /\ DOMAIN origin' = DOMAIN origin \cup {t} /\ origin'[t] = job.deposit
            /\ \A x \in DOMAIN origin : x # t => origin'[x] = origin[x]
        <4>1. origin' = Insert(origin, t, job.deposit)
          BY <1>1
        <4> QED
          BY <4>1 DEF Insert
      <3>2. origin' \in [DOMAIN origin \cup {t} -> Deposit]
        BY <1>1, <1>3, <2>1, InsertType
      <3> QED
        BY <1>1, <1>5, <3>1, <3>2
    <2> QED
      BY <2>2, <2>3
  <1>7. /\ DOMAIN deposit' = DOMAIN deposit
        /\ \A e \in DOMAIN deposit : /\ e # job.deposit => deposit'[e] = deposit[e]
                                     /\ deposit'[e].user = deposit[e].user
                                     /\ deposit'[e].points = deposit[e].points
        /\ deposit' \in [DOMAIN deposit' -> [status : DepositStatus, user : User, points : Nat]]
    BY <1>1, DecideFacts
  <1>8. /\ CreditedHasRow' /\ ToldOfCreditedPoints' /\ BonusFollowsCredit' /\ RowsHaveOrigin'
        /\ \A u \in User : BonusRows(u)' = BonusRows(u)
    <2> DEFINE rows == {t}
    <2>1. /\ t \in rows /\ rows \cap DOMAIN txn = {} /\ rows \ {t} = {}
          /\ DOMAIN txn' = DOMAIN txn \cup rows /\ DOMAIN origin' = DOMAIN origin \cup rows
          /\ \A x \in rows : origin'[x] = job.deposit /\ txn'[x].status = "COMPLETED"
      BY <1>1, <1>4, <1>6
    <2> HIDE DEF rows
    <2>2. /\ txn'[t].type = "DEPOSIT" /\ txn'[t].user = deposit[job.deposit].user
          /\ txn'[t].amount = deposit[job.deposit].points
      BY <1>3, <1>4, <1>6
    <2>3. /\ CreditedHasRow' /\ ToldOfCreditedPoints' /\ BonusFollowsCredit' /\ RowsHaveOrigin'
          /\ \A u \in User : BonusRows(u)' =
               BonusRows(u) \cup (IF u = deposit[job.deposit].user THEN rows \ {t} ELSE {})
      <3>1. job.deposit \in DOMAIN deposit /\ noticed' = noticed
        BY <1>1, <1>3
      <3> QED
        BY <1>2, <1>6, <1>7, <2>1, <2>2, <3>1, RowsAdded
    <2> QED
      BY <2>1, <2>3
  <1>9. OneBonusRow' /\ ReferralsKnown'
    BY <1>1, <1>2, <1>8 DEF DataFacts, OneBonusRow, ReferralsKnown
  <1>10. CallFacts' /\ call' \in [Call -> AnyCall]
    <2>1. /\ told \in AnyCall /\ told.pc = "tell"
          /\ {told.credit} \cup told.bonus \subseteq DOMAIN origin'
      BY <1>6 DEF AnyCall, TellJob
    <2>2. \A u \in User : UserDoc(u) \notin Written(job) => balance'[u] = balance[u]
      <3>1. UserDoc(job.user) \in Written(job)
        BY <1>1 DEF Written
      <3> QED
        BY <1>1, <1>2, <3>1 DEF DepTypeOK, LedgerTypeOK
    <2>3. deposit' = [deposit EXCEPT ![job.deposit].status = job.status]
      BY <1>1 DEF Decide
    <2> HIDE DEF told
    <2> QED
      BY <1>1, <1>6, <2>1, <2>2, <2>3, CommitKeepsCalls
  <1>11. DepTypeOK'
    <2>1. balance' \in [User -> Int]
      BY <1>1, <1>2, <1>3 DEF DepTypeOK, LedgerTypeOK
    <2>2. DOMAIN txn' \subseteq TxnId /\ IsFiniteSet(DOMAIN txn')
      BY <1>2, <1>6, FS_AddElement DEF DepTypeOK, LedgerTypeOK
    <2>3. DOMAIN origin' \subseteq DOMAIN txn'
      BY <1>5, <1>6
    <2> QED
      BY <1>1, <1>2, <1>6, <1>7, <1>10, <2>1, <2>2, <2>3 DEF DepTypeOK, LedgerTypeOK, AnyCall
  <1> QED
    BY <1>8, <1>9, <1>10, <1>11 DEF CallFacts, DepInv

LEMMA CommitCreditWithBonusKeepsInv ==
  ASSUME DepInv, NEW c \in Call, NEW t \in TxnId, NEW b \in TxnId,
         CommitCreditWithBonus(c, t, b)
  PROVE  DepInv'
  <1> DEFINE job   == call[c]
             bonus == Bonus(job.points)
             row   == CreditRow(job.user, "DEPOSIT", job.points, job.seen)
             brow  == CreditRow(job.bonusTo, "REFERRAL", bonus, job.bonusSeen)
             told  == [pc |-> "tell", credit |-> t, bonus |-> {b}]
  <1>1. /\ job.pc = "process" /\ job.status = "CREDITED" /\ job.bonusTo # NoUser
        /\ t \notin DOMAIN txn /\ b \notin DOMAIN txn /\ t # b /\ Decide(job)
        /\ balance' = [balance EXCEPT ![job.user]    = job.seen + job.points,
                                      ![job.bonusTo] = job.bonusSeen + bonus]
        /\ txn' = Insert(Insert(txn, t, row), b, brow)
        /\ origin' = Insert(Insert(origin, t, job.deposit), b, job.deposit)
        /\ referral' = [referral EXCEPT ![job.user] = "REWARDED"]
        /\ call' = Touch([call EXCEPT ![c] = told], Written(job))
        /\ UNCHANGED <<noticed, active>>
    BY DEF CommitCreditWithBonus, WithRow, Rewarded
  <1>2. DepTypeOK /\ DataFacts
    BY Halves
  <1>3. /\ job.deposit \in DOMAIN deposit /\ job.deposit \in Deposit
        /\ deposit[job.deposit].user = job.user /\ deposit[job.deposit].points = job.points
        /\ job.user \in User /\ job.points \in Nat /\ job.seen \in Int
        /\ job.bonusTo \in User /\ job.bonusTo = Referrer[job.user] /\ job.bonusSeen \in Int
        /\ referral[job.user] = "COMPLETED"
    BY <1>1, JobFacts DEF ProcessJob
  <1>4. bonus \in Nat /\ Atomic!IsBonus(bonus, job.points)
    BY <1>3, BonusFacts
  <1> HIDE DEF bonus
  <1>5. /\ row \in Row /\ row.type = "DEPOSIT" /\ row.user = job.user
        /\ row.amount = job.points /\ row.status = "COMPLETED"
        /\ brow \in Row /\ brow.type = "REFERRAL" /\ brow.user = job.bonusTo
        /\ brow.amount = bonus /\ brow.status = "COMPLETED"
    <2>1. "DEPOSIT" \in CreditType /\ "REFERRAL" \in CreditType
      BY DEF CreditType
    <2>2. row \in Row
      BY <1>3, <2>1, CreditRowType
    <2>3. brow \in Row
      BY <1>3, <1>4, <2>1, CreditRowType, ZenonT(30)
    <2> QED
      BY <2>2, <2>3 DEF CreditRow
  <1> HIDE DEF row, brow
  <1>6. DOMAIN origin \subseteq DOMAIN txn
    BY <1>2 DEF DepTypeOK
  <1>7. /\ DOMAIN txn' = DOMAIN txn \cup {t, b} /\ txn'[t] = row /\ txn'[b] = brow
        /\ \A x \in DOMAIN txn : txn'[x] = txn[x]
        /\ txn' \in [DOMAIN txn' -> Row]
    <2> DEFINE first == Insert(txn, t, row)
    <2>1. txn \in [DOMAIN txn -> Row]
      BY <1>2 DEF DepTypeOK, LedgerTypeOK
    <2>2. /\ DOMAIN first = DOMAIN txn \cup {t} /\ first[t] = row
          /\ \A x \in DOMAIN txn : x # t => first[x] = txn[x]
      BY DEF Insert
    <2>3. first \in [DOMAIN txn \cup {t} -> Row]
      BY <1>5, <2>1, InsertType
    <2> HIDE DEF first
    <2>4. txn' = Insert(first, b, brow)
      BY <1>1 DEF first
    <2>5. /\ DOMAIN txn' = DOMAIN first \cup {b} /\ txn'[b] = brow
          /\ \A x \in DOMAIN first : x # b => txn'[x] = first[x]
      BY <2>4 DEF Insert
    <2>6. txn' \in [DOMAIN first \cup {b} -> Row]
      BY <1>5, <2>2, <2>3, <2>4, InsertType
    <2> QED
      BY <1>1, <2>2, <2>5, <2>6
  <1>8. /\ DOMAIN origin' = DOMAIN origin \cup {t, b}
        /\ origin'[t] = job.deposit /\ origin'[b] = job.deposit
        /\ \A x \in DOMAIN origin : origin'[x] = origin[x]
        /\ origin' \in [DOMAIN origin' -> Deposit]
    <2> DEFINE first == Insert(origin, t, job.deposit)
    <2>1. origin \in [DOMAIN origin -> Deposit]
      BY <1>2 DEF DepTypeOK
    <2>2. /\ DOMAIN first = DOMAIN origin \cup {t} /\ first[t] = job.deposit
          /\ \A x \in DOMAIN origin : x # t => first[x] = origin[x]
      BY DEF Insert
    <2>3. first \in [DOMAIN origin \cup {t} -> Deposit]
      BY <1>3, <2>1, InsertType
    <2> HIDE DEF first
    <2>4. origin' = Insert(first, b, job.deposit)
      BY <1>1 DEF first
    <2>5. /\ DOMAIN origin' = DOMAIN first \cup {b} /\ origin'[b] = job.deposit
          /\ \A x \in DOMAIN first : x # b => origin'[x] = first[x]
      BY <2>4 DEF Insert
    <2>6. origin' \in [DOMAIN first \cup {b} -> Deposit]
      BY <1>3, <2>2, <2>3, <2>4, InsertType
    <2> QED
      BY <1>1, <1>6, <2>2, <2>5, <2>6
  <1>9. /\ DOMAIN deposit' = DOMAIN deposit
        /\ \A e \in DOMAIN deposit : /\ e # job.deposit => deposit'[e] = deposit[e]
                                     /\ deposit'[e].user = deposit[e].user
                                     /\ deposit'[e].points = deposit[e].points
        /\ deposit' \in [DOMAIN deposit' -> [status : DepositStatus, user : User, points : Nat]]
    BY <1>1, DecideFacts
  <1>10. /\ CreditedHasRow' /\ ToldOfCreditedPoints' /\ BonusFollowsCredit' /\ RowsHaveOrigin'
         /\ \A u \in User : BonusRows(u)' =
              BonusRows(u) \cup (IF u = job.user THEN {b} ELSE {})
    <2> DEFINE rows == {t, b}
    <2>1. /\ t \in rows /\ rows \cap DOMAIN txn = {} /\ rows \ {t} = {b}
          /\ DOMAIN txn' = DOMAIN txn \cup rows /\ DOMAIN origin' = DOMAIN origin \cup rows
          /\ \A x \in rows : origin'[x] = job.deposit /\ txn'[x].status = "COMPLETED"
      BY <1>1, <1>5, <1>7, <1>8
    <2> HIDE DEF rows
    <2>2. /\ txn'[t].type = "DEPOSIT" /\ txn'[t].user = deposit[job.deposit].user
          /\ txn'[t].amount = deposit[job.deposit].points
      BY <1>3, <1>5, <1>7
    <2>3. \A x \in rows \ {t} : /\ txn'[x].type = "REFERRAL"
                               /\ txn'[x].user = Referrer[deposit[job.deposit].user]
                               /\ Atomic!IsBonus(txn'[x].amount, deposit[job.deposit].points)
      BY <1>3, <1>4, <1>5, <1>7, <2>1
    <2>4. /\ \A x \in DOMAIN txn : txn'[x] = txn[x]
          /\ \A x \in DOMAIN origin : origin'[x] = origin[x]
          /\ noticed' = noticed
      BY <1>1, <1>7, <1>8
    <2>5. /\ CreditedHasRow' /\ ToldOfCreditedPoints' /\ BonusFollowsCredit' /\ RowsHaveOrigin'
          /\ \A u \in User : BonusRows(u)' =
               BonusRows(u) \cup (IF u = deposit[job.deposit].user THEN rows \ {t} ELSE {})
      <3>1. job.deposit \in DOMAIN deposit
        BY <1>3
      <3> QED
        BY <1>2, <1>9, <2>1, <2>2, <2>3, <2>4, <3>1, RowsAdded
    <2> QED
      BY <1>3, <2>1, <2>5
  <1>11. OneBonusRow' /\ ReferralsKnown'
    <2>1. /\ referral'[job.user] = "REWARDED"
          /\ \A u \in User : u # job.user => referral'[u] = referral[u]
      BY <1>1, <1>2, <1>3 DEF DepTypeOK
    <2>2. BonusRows(job.user) = {}
      BY <1>2, <1>3 DEF DataFacts, OneBonusRow
    <2>3. ASSUME NEW u \in User
          PROVE  IF referral'[u] = "REWARDED"
                   THEN \E x \in TxnId : BonusRows(u)' = {x} ELSE BonusRows(u)' = {}
      <3>1. CASE u = job.user
        <4>1. BonusRows(u)' = {b}
          BY <1>10, <2>2, <3>1
        <4> QED
          BY <2>1, <3>1, <4>1
      <3>2. CASE u # job.user
        <4>1. BonusRows(u)' = BonusRows(u) /\ referral'[u] = referral[u]
          BY <1>10, <2>1, <3>2
        <4> QED
          BY <1>2, <4>1 DEF DataFacts, OneBonusRow
      <3> QED
        BY <3>1, <3>2
    <2>4. OneBonusRow'
      BY <2>3 DEF OneBonusRow
    <2>5. ReferralsKnown'
      BY <1>2, <1>3, <2>1 DEF DataFacts, ReferralsKnown
    <2> QED
      BY <2>4, <2>5
  <1>12. CallFacts' /\ call' \in [Call -> AnyCall]
    <2>1. /\ told \in AnyCall /\ told.pc = "tell"
          /\ {told.credit} \cup told.bonus \subseteq DOMAIN origin'
      BY <1>8 DEF AnyCall, TellJob
    <2>2. \A u \in User : UserDoc(u) \notin Written(job) => balance'[u] = balance[u]
      <3>1. UserDoc(job.user) \in Written(job) /\ UserDoc(job.bonusTo) \in Written(job)
        BY <1>1 DEF Written
      <3> QED
        BY <1>1, <1>2, <3>1 DEF DepTypeOK, LedgerTypeOK
    <2>3. \A u \in User : ReferralDoc(u) \notin Written(job) => referral'[u] = referral[u]
      <3>1. ReferralDoc(job.user) \in Written(job)
        BY <1>1 DEF Written
      <3> QED
        BY <1>1, <1>2, <3>1 DEF DepTypeOK
    <2>4. deposit' = [deposit EXCEPT ![job.deposit].status = job.status]
      BY <1>1 DEF Decide
    <2>5. DOMAIN origin \subseteq DOMAIN origin'
      BY <1>8
    <2> HIDE DEF told
    <2> QED
      BY <1>1, <2>1, <2>2, <2>3, <2>4, <2>5, CommitKeepsCalls
  <1>13. DepTypeOK'
    <2>1. balance' \in [User -> Int]
      BY <1>1, <1>2, <1>3, <1>4 DEF DepTypeOK, LedgerTypeOK
    <2>2. referral' \in [User -> {"NONE", "COMPLETED", "REWARDED"}]
      BY <1>1, <1>2, <1>3 DEF DepTypeOK
    <2>3. DOMAIN txn' \subseteq TxnId /\ IsFiniteSet(DOMAIN txn')
      <3>1. IsFiniteSet(DOMAIN txn \cup {t}) /\ DOMAIN txn' = (DOMAIN txn \cup {t}) \cup {b}
        BY <1>2, <1>7, FS_AddElement DEF DepTypeOK, LedgerTypeOK
      <3>2. IsFiniteSet(DOMAIN txn')
        BY <3>1, FS_AddElement
      <3> QED
        BY <1>2, <1>7, <3>2 DEF DepTypeOK, LedgerTypeOK
    <2>4. DOMAIN origin' \subseteq DOMAIN txn'
      BY <1>6, <1>7, <1>8
    <2> QED
      BY <1>1, <1>2, <1>7, <1>8, <1>9, <1>12, <2>1, <2>2, <2>3, <2>4 DEF DepTypeOK, LedgerTypeOK, AnyCall
  <1> QED
    BY <1>10, <1>11, <1>12, <1>13 DEF CallFacts, DepInv

-----------------------------------------------------------------------------
(* Every step *)

LEMMA NextKeepsInv == DepInv /\ [DepNext]_depVars => DepInv'
  <1> SUFFICES ASSUME DepInv, [DepNext]_depVars PROVE DepInv'
    OBVIOUS
  <1>1. CASE UNCHANGED depVars
    BY <1>1 DEF depVars, DepInv, DepTypeOK, LedgerTypeOK, CreditedHasRow, ToldOfCreditedPoints,
                BonusFollowsCredit, SnapshotsHold, RowsHaveOrigin, OneBonusRow, BonusRows,
                ReferralsKnown, ToldAfterCommit, PickupsKnown, CreditRows, Atomic!IsBonus
  <1>2. ASSUME NEW u \in User, NEW d \in Deposit, NEW points \in Points, Submit(u, d, points)
        PROVE  DepInv'
    BY <1>2, SubmitKeepsInv
  <1>3. ASSUME NEW c \in Call, Process(c) PROVE DepInv'
    <2>1. ASSUME NEW d \in Deposit, NEW status \in Processed, BeginProcess(c, d, status)
          PROVE  DepInv'
      BY <2>1, BeginProcessKeepsInv
    <2>2. CASE CommitReject(c)
      BY <2>2, CommitRejectKeepsInv
    <2>3. ASSUME NEW t \in TxnId, CommitCredit(c, t) PROVE DepInv'
      BY <2>3, CommitCreditKeepsInv
    <2>4. ASSUME NEW t \in TxnId, NEW b \in TxnId, CommitCreditWithBonus(c, t, b) PROVE DepInv'
      BY <2>4, CommitCreditWithBonusKeepsInv
    <2>5. CASE AbortProcess(c)
      BY <2>5, ReadersKeepInv
    <2>6. CASE Tell(c)
      BY <2>6, TellKeepsInv
    <2> QED
      BY <1>3, <2>1, <2>2, <2>3, <2>4, <2>5, <2>6 DEF Process
  <1>4. CASE Pickup
    BY <1>4, PickupKeepsInv
  <1>5. ASSUME NEW c \in Call, NEW u \in Toggled, ReadUserStatus(c, u) PROVE DepInv'
    BY <1>5, ReadersKeepInv
  <1>6. ASSUME NEW c \in Call, ToggleUserStatus(c) PROVE DepInv'
    BY <1>6, ToggleKeepsInv
  <1> QED
    BY <1>1, <1>2, <1>3, <1>4, <1>5, <1>6 DEF DepNext

\* The inductive invariant holds in every behaviour of the deposit handlers.
THEOREM DepositInvariant == DepSpec => []DepInv
  <1> QED
    BY InitInv, NextKeepsInv, PTL DEF DepSpec

LEMMA InvPaysOnce == DepInv => ReferralPaidOnce
  <1> SUFFICES ASSUME DepInv, NEW u \in User
               PROVE  Cardinality(BonusRows(u)) = IF referral[u] = "REWARDED" THEN 1 ELSE 0
    BY DEF ReferralPaidOnce, BonusRows
  <1>1. CASE referral[u] = "REWARDED"
    BY <1>1, FS_Singleton DEF DepInv, OneBonusRow
  <1>2. CASE referral[u] # "REWARDED"
    BY <1>2, FS_EmptySet DEF DepInv, OneBonusRow
  <1> QED
    BY <1>1, <1>2

\* A referral is paid exactly once when it says REWARDED, and never before.
THEOREM BonusPaidOnce == DepSpec => []ReferralPaidOnce
  <1> QED
    BY InvPaysOnce, DepositInvariant, PTL

\* A bonus goes to the referrer of the user who was credited for the deposit, and
\* is five percent of that credit, at least a point.
THEOREM BonusIsOfTheCredit == DepSpec => []BonusFollowsCredit
  <1>1. DepInv => BonusFollowsCredit
    BY DEF DepInv
  <1> QED
    BY <1>1, DepositInvariant, PTL

-----------------------------------------------------------------------------
(* Decisions *)

\* Only the commit of a transaction decides a deposit, and then its snapshot says
\* that it is undecided.
LEMMA OnlyCommitsDecide ==
  ASSUME DepInv, DepNext, NEW d \in DOMAIN deposit, NEW s \in Processed, Becomes(d, s)
  PROVE  /\ deposit[d].status \notin Processed
         /\ \E c \in Call :
              /\ call[c].pc = "process" /\ call[c].deposit = d /\ call[c].status = s
              /\ \/ CommitReject(c)
                 \/ \E t \in TxnId : CommitCredit(c, t)
                 \/ \E t, b \in TxnId : CommitCreditWithBonus(c, t, b)
  <1>0. deposit \in [DOMAIN deposit -> [status : DepositStatus, user : User, points : Nat]]
    BY DEF DepInv, DepTypeOK
  <1>1. deposit'[d] # deposit[d] /\ deposit'[d].status \in Processed
    BY DEF Becomes
  <1>2. ASSUME NEW u \in User, NEW e \in Deposit, NEW points \in Points, Submit(u, e, points)
        PROVE  FALSE
    BY <1>1, <1>2 DEF Submit, Insert
  <1>3. ASSUME NEW e, NEW status, NEW calls, status \notin Processed, WriteStatus(e, status, calls)
        PROVE  FALSE
    <2>1. deposit' = [deposit EXCEPT ![e].status = status]
      BY <1>3 DEF WriteStatus
    <2>2. CASE e = d
      BY <1>0, <1>1, <1>3, <2>1, <2>2
    <2>3. CASE e # d
      BY <1>1, <2>1, <2>3
    <2> QED
      BY <2>2, <2>3
  <1>4. ASSUME Pickup PROVE FALSE
    <2>1. \A c \in Call, e \in Deposit : ~CheckPickedUp(c, e)
      BY <1>1 DEF CheckPickedUp
    <2>2. "SCHEDULED" \notin Processed /\ "IN_PROGRESS" \notin Processed /\ "PICKED_UP" \notin Processed
      BY DEF Processed
    <2> QED
      BY <1>3, <1>4, <2>1, <2>2 DEF Pickup, SchedulePickup, MarkPickupArrived, MarkPickedUp
  <1>5. \A c \in Call : /\ ~ToggleUserStatus(c) /\ ~AbortProcess(c) /\ ~Tell(c)
                        /\ \A u \in Toggled : ~ReadUserStatus(c, u)
                        /\ \A e \in Deposit, status \in Processed : ~BeginProcess(c, e, status)
    BY <1>1 DEF ToggleUserStatus, AbortProcess, Tell, ReadUserStatus, BeginProcess,
                BeginProcess_Unguarded
  <1>6. PICK c \in Call : \/ CommitReject(c)
                         \/ \E t \in TxnId : CommitCredit(c, t)
                         \/ \E row, b \in TxnId : CommitCreditWithBonus(c, row, b)
    BY <1>2, <1>4, <1>5 DEF DepNext, Process
  <1>7. call[c].pc = "process" /\ Decide(call[c])
    BY <1>6 DEF CommitReject, CommitCredit, CommitCreditWithBonus
  <1>8. call[c].deposit = d /\ call[c].status = s
    BY <1>1, <1>7, DecideFacts DEF Becomes
  <1> QED
    BY <1>6, <1>7, <1>8, JobFacts

\* A decision takes effect on an undecided deposit only.
THEOREM DecisionsAreFinal == DepSpec => DecidesUndecided
  <1>1. DepInv /\ [DepNext]_depVars =>
          [\A d \in DOMAIN deposit :
             (\E s \in Processed : Becomes(d, s)) => deposit[d].status \notin Processed]_depVars
    BY OnlyCommitsDecide
  <1> QED
    BY <1>1, DepositInvariant, PTL DEF DepSpec, DecidesUndecided

\* A credit moves the owner's wallet by the points of the deposit and the
\* referrer's by the bonus, and no other.
LEMMA CreditStepExact ==
  ASSUME DepInv, DepNext, NEW d \in DOMAIN deposit, Becomes(d, "CREDITED")
  PROVE  LET u == deposit[d].user IN
         /\ balance'[u] = balance[u] + deposit[d].points
         /\ \A v \in User \ {u} :
              balance'[v] - balance[v] =
                IF v = Referrer[u] /\ referral'[u] # referral[u]
                  THEN Bonus(deposit[d].points) ELSE 0
  <1> DEFINE Goal == LET u == deposit[d].user IN
               /\ balance'[u] = balance[u] + deposit[d].points
               /\ \A v \in User \ {u} :
                    balance'[v] - balance[v] =
                      IF v = Referrer[u] /\ referral'[u] # referral[u]
                        THEN Bonus(deposit[d].points) ELSE 0
  <1> SUFFICES Goal
    OBVIOUS
  <1>0. balance \in [User -> Int] /\ referral \in [User -> {"NONE", "COMPLETED", "REWARDED"}]
    BY DEF DepInv, DepTypeOK, LedgerTypeOK
  <1>1. "CREDITED" \in Processed
    BY DEF Processed
  <1>2. PICK c \in Call :
          /\ call[c].pc = "process" /\ call[c].deposit = d /\ call[c].status = "CREDITED"
          /\ \/ CommitReject(c)
             \/ \E t \in TxnId : CommitCredit(c, t)
             \/ \E t, b \in TxnId : CommitCreditWithBonus(c, t, b)
    BY <1>1, OnlyCommitsDecide
  <1> DEFINE job == call[c]
             u   == deposit[d].user
  <1>3. /\ u = job.user /\ u \in User /\ deposit[d].points = job.points /\ job.points \in Nat
        /\ job.seen = balance[u]
        /\ job.bonusTo # NoUser =>
             /\ job.bonusTo \in User /\ job.bonusTo = Referrer[u] /\ job.bonusTo # u
             /\ referral[u] = "COMPLETED" /\ job.bonusSeen = balance[job.bonusTo]
    BY <1>2, JobFacts
  <1>4. ASSUME NEW t \in TxnId, CommitCredit(c, t) PROVE Goal
    <2>1. balance' = [balance EXCEPT ![u] = balance[u] + deposit[d].points] /\ referral' = referral
      BY <1>3, <1>4 DEF CommitCredit
    <2>2. balance'[u] = balance[u] + deposit[d].points
      BY <1>0, <1>3, <2>1
    <2>3. \A v \in User \ {u} : balance'[v] = balance[v]
      BY <1>0, <2>1
    <2>4. \A v \in User \ {u} : balance'[v] - balance[v] = 0
      BY <1>0, <2>3
    <2> QED
      BY <2>1, <2>2, <2>4
  <1>5. ASSUME NEW t \in TxnId, NEW b \in TxnId, CommitCreditWithBonus(c, t, b) PROVE Goal
    <2> DEFINE bonus == Bonus(deposit[d].points)
    <2>0. bonus \in Nat
      BY <1>3, BonusFacts
    <2> HIDE DEF bonus
    <2>1. /\ balance' = [balance EXCEPT ![u] = balance[u] + deposit[d].points,
                                       ![Referrer[u]] = balance[Referrer[u]] + bonus]
          /\ referral' = [referral EXCEPT ![u] = "REWARDED"]
          /\ Referrer[u] \in User /\ Referrer[u] # u /\ referral[u] = "COMPLETED"
      BY <1>3, <1>5 DEF CommitCreditWithBonus, Rewarded, bonus
    <2>2. balance'[u] = balance[u] + deposit[d].points /\ referral'[u] # referral[u]
      BY <1>0, <1>3, <2>1
    <2>3. balance'[Referrer[u]] - balance[Referrer[u]] = bonus
      BY <1>0, <2>0, <2>1
    <2>4. \A v \in User \ {u} : v # Referrer[u] => balance'[v] - balance[v] = 0
      BY <1>0, <2>1
    <2> QED
      BY <2>2, <2>3, <2>4 DEF bonus
  <1>6. ~CommitReject(c)
    BY <1>2 DEF CommitReject
  <1> QED
    BY <1>2, <1>4, <1>5, <1>6

\* As far as the deposit handlers go, credits are exact.
THEOREM CreditsAreExact == DepSpec => CreditIsExact
  <1> DEFINE Exact(d) == LET u == deposit[d].user IN
               /\ balance'[u] = balance[u] + deposit[d].points
               /\ \A v \in User \ {u} :
                    balance'[v] - balance[v] =
                      IF v = Referrer[u] /\ referral'[u] # referral[u]
                        THEN Bonus(deposit[d].points) ELSE 0
  <1>1. DepInv /\ [DepNext]_depVars =>
          [\A d \in DOMAIN deposit : Becomes(d, "CREDITED") => Exact(d)]_depVars
    BY CreditStepExact
  <1> QED
    BY <1>1, DepositInvariant, PTL DEF DepSpec, CreditIsExact

-----------------------------------------------------------------------------
(* The ledger *)

\* The rows and the balances that a credit leaves, without and with a bonus.
LEMMA CreditAdds ==
  ASSUME DepInv, NEW c \in Call, NEW t \in TxnId, CommitCredit(c, t)
  PROVE  LET u == call[c].user  points == call[c].points IN
         /\ t \notin DOMAIN txn /\ u \in User /\ points \in Nat /\ noticed' = noticed
         /\ txn' = Insert(txn, t, CreditRow(u, "DEPOSIT", points, balance[u]))
         /\ balance' = [balance EXCEPT ![u] = balance[u] + points]
  BY JobFacts DEF CommitCredit, WithRow

LEMMA BonusAdds ==
  ASSUME DepInv, NEW c \in Call, NEW t \in TxnId, NEW b \in TxnId,
         CommitCreditWithBonus(c, t, b)
  PROVE  LET u == call[c].user  v == call[c].bonusTo  points == call[c].points IN
         /\ t \notin DOMAIN txn /\ b \notin DOMAIN txn /\ t # b
         /\ u \in User /\ v \in User /\ u # v /\ points \in Nat /\ noticed' = noticed
         /\ txn' = Insert(Insert(txn, t, CreditRow(u, "DEPOSIT", points, balance[u])),
                          b, CreditRow(v, "REFERRAL", Bonus(points), balance[v]))
         /\ balance' = [balance EXCEPT ![u] = balance[u] + points,
                                       ![v] = balance[v] + Bonus(points)]
  BY JobFacts DEF CommitCreditWithBonus, WithRow

\* No other step moves points.
LEMMA OnlyCreditsMove ==
  ASSUME DepNext
  PROVE  \/ UNCHANGED <<balance, txn>>
         \/ \E c \in Call, t \in TxnId : CommitCredit(c, t)
         \/ \E c \in Call, t, b \in TxnId : CommitCreditWithBonus(c, t, b)
  BY DEF DepNext, Process, Pickup, Submit, BeginProcess, BeginProcess_Unguarded, CommitReject,
         AbortProcess, Tell, SchedulePickup, MarkPickupArrived, CheckPickedUp, MarkPickedUp,
         WriteStatus, ReadUserStatus, ToggleUserStatus

LEMMA InsertFacts ==
  ASSUME NEW f, NEW k, k \notin DOMAIN f, NEW v
  PROVE  /\ DOMAIN Insert(f, k, v) = DOMAIN f \cup {k}
         /\ Insert(f, k, v)[k] = v
         /\ \A x \in DOMAIN f : Insert(f, k, v)[x] = f[x]
  BY DEF Insert

\* A credit row more, in any ledger, is worth its amount to its user.
LEMMA WorthOfCredit ==
  ASSUME NEW f, IsLedger(f), NEW t, t \notin DOMAIN f, NEW u \in User, NEW type \in CreditType,
         NEW amount \in Nat, NEW seen \in Int
  PROVE  LET g == Insert(f, t, CreditRow(u, type, amount, seen)) IN
         /\ IsLedger(g)
         /\ \A v \in User : Worth(g, v) = Worth(f, v) + (IF v = u THEN amount ELSE 0)
  <1> DEFINE row == CreditRow(u, type, amount, seen)
             g   == Insert(f, t, row)
  <1>1. row \in Row
    BY CreditRowType
  <1>2. row.type \in CreditType /\ row.user = u /\ row.amount = amount /\ row.status = "COMPLETED"
    BY DEF CreditRow
  <1> HIDE DEF row
  <1>3. DOMAIN g = DOMAIN f \cup {t} /\ g[t] = row /\ \A x \in DOMAIN f : g[x] = f[x]
    BY DEF Insert
  <1>4. IsLedger(g)
    <2>1. g \in [DOMAIN f \cup {t} -> Row]
      BY <1>1, InsertType DEF IsLedger
    <2>2. IsFiniteSet(DOMAIN g)
      BY <1>3, FS_AddElement DEF IsLedger
    <2> QED
      BY <1>3, <2>1, <2>2 DEF IsLedger
  <1> HIDE DEF g
  <1>5. ASSUME NEW v \in User
        PROVE  Worth(g, v) = Worth(f, v) + (IF v = u THEN amount ELSE 0)
    <2>1. Worth(g, v) = Worth(f, v) + Effect(g[t], v)
      BY <1>3, <1>4, WorthOfOneMore
    <2>2. Effect(g[t], v) = IF v = u THEN amount ELSE 0
      BY <1>2, <1>3 DEF Effect
    <2> QED
      BY <2>1, <2>2
  <1> QED
    BY <1>4, <1>5 DEF g, row

\* Wallet and ledger move together, for every user.
LEMMA StepKeepsDrift ==
  ASSUME DepInv, [DepNext]_depVars, NEW u \in User
  PROVE  balance'[u] - LedgerBalance(u)' = balance[u] - LedgerBalance(u)
  <1> DEFINE Goal == balance'[u] - LedgerBalance(u)' = balance[u] - LedgerBalance(u)
  <1> SUFFICES Goal
    OBVIOUS
  <1>0. /\ IsLedger(txn) /\ balance \in [User -> Int]
        /\ Worth(txn, u) \in Int /\ balance[u] \in Int
    <2>1. IsLedger(txn) /\ balance \in [User -> Int]
      BY DEF DepInv, DepTypeOK, LedgerTypeOK, IsLedger
    <2> QED
      BY <2>1, WorthInt
  <1>1. LedgerBalance(u) = Worth(txn, u) /\ LedgerBalance(u)' = Worth(txn', u)
    BY LedgerIsWorth, NextLedgerIsWorth
  <1>2. ASSUME UNCHANGED <<balance, txn>> PROVE Goal
    BY <1>1, <1>2
  <1>3. ASSUME NEW c \in Call, NEW t \in TxnId, CommitCredit(c, t) PROVE Goal
    <2>1. PICK v \in User, points \in Nat :
            /\ t \notin DOMAIN txn
            /\ txn' = Insert(txn, t, CreditRow(v, "DEPOSIT", points, balance[v]))
            /\ balance' = [balance EXCEPT ![v] = balance[v] + points]
      BY <1>3, CreditAdds
    <2>2. Worth(txn', u) = Worth(txn, u) + (IF u = v THEN points ELSE 0)
      <3>1. balance[v] \in Int /\ "DEPOSIT" \in CreditType
        BY <1>0 DEF CreditType
      <3> QED
        BY <1>0, <2>1, <3>1, WorthOfCredit
    <2>3. balance'[u] = balance[u] + (IF u = v THEN points ELSE 0)
      BY <1>0, <2>1
    <2> QED
      BY <1>0, <1>1, <2>2, <2>3
  <1>4. ASSUME NEW c \in Call, NEW t \in TxnId, NEW b \in TxnId, CommitCreditWithBonus(c, t, b)
        PROVE  Goal
    <2>1. PICK v \in User, w \in User, points \in Nat :
            /\ t \notin DOMAIN txn /\ b \notin DOMAIN txn /\ t # b /\ v # w
            /\ txn' = Insert(Insert(txn, t, CreditRow(v, "DEPOSIT", points, balance[v])),
                             b, CreditRow(w, "REFERRAL", Bonus(points), balance[w]))
            /\ balance' = [balance EXCEPT ![v] = balance[v] + points,
                                          ![w] = balance[w] + Bonus(points)]
      BY <1>4, BonusAdds
    <2>2. PICK bonus \in Nat : bonus = Bonus(points)
      BY BonusFacts
    <2> DEFINE mid == Insert(txn, t, CreditRow(v, "DEPOSIT", points, balance[v]))
    <2>3. balance[v] \in Int /\ balance[w] \in Int /\ CreditType = {"DEPOSIT", "REFERRAL"}
      BY <1>0 DEF CreditType
    <2>4. IsLedger(mid) /\ Worth(mid, u) = Worth(txn, u) + (IF u = v THEN points ELSE 0)
      BY <1>0, <2>1, <2>3, WorthOfCredit
    <2>5. b \notin DOMAIN mid
      BY <2>1 DEF Insert
    <2>6. txn' = Insert(mid, b, CreditRow(w, "REFERRAL", bonus, balance[w]))
      BY <2>1, <2>2
    <2> HIDE DEF mid
    <2>7. Worth(txn', u) = Worth(mid, u) + (IF u = w THEN bonus ELSE 0)
      BY <2>3, <2>4, <2>5, <2>6, WorthOfCredit
    <2>8. balance'[u] = balance[u] + (IF u = v THEN points ELSE 0) + (IF u = w THEN bonus ELSE 0)
      BY <1>0, <2>1, <2>2
    <2> QED
      BY <1>0, <1>1, <2>4, <2>7, <2>8
  <1> QED
    BY <1>2, <1>3, <1>4, OnlyCreditsMove DEF depVars

\* As far as the deposit handlers go, every wallet holds what its ledger says: no
\* credit, bonus, abort or interleaving of admins loses or makes points.
THEOREM CreditsKeepLedger == DepSpec => []WalletMatchesLedger
  <1>1. DepInit => WalletMatchesLedger
    <2> SUFFICES ASSUME DepInit, NEW u \in User PROVE balance[u] = LedgerBalance(u)
      BY DEF WalletMatchesLedger
    <2>1. balance[u] = Opening[u] /\ txn = [t \in {} |-> {}]
      BY DEF DepInit, LedgerInit
    <2>2. \A types : Settled(txn, u, types) = {}
      BY <2>1 DEF Settled
    <2>3. LedgerBalance(u) = Opening[u] + 0 - 0
      BY <2>2, LedgerIsWorth, SumEmpty DEF Worth
    <2> QED
      BY <2>1, <2>3, OpeningAssumption
  <1>2. DepInv /\ WalletMatchesLedger /\ [DepNext]_depVars => WalletMatchesLedger'
    <2> SUFFICES ASSUME DepInv, WalletMatchesLedger, [DepNext]_depVars, NEW u \in User
                 PROVE  balance'[u] = LedgerBalance(u)'
      BY DEF WalletMatchesLedger
    <2>1. /\ LedgerBalance(u) \in Int /\ LedgerBalance(u)' \in Int
          /\ balance[u] \in Int /\ balance'[u] \in Int
      <3>1. /\ IsLedger(txn) /\ balance \in [User -> Int]
        BY DEF DepInv, DepTypeOK, LedgerTypeOK, IsLedger
      <3>2. IsLedger(txn') /\ balance' \in [User -> Int]
        <4>1. DepInv'
          BY NextKeepsInv
        <4> QED
          BY <4>1 DEF DepInv, DepTypeOK, LedgerTypeOK, IsLedger
      <3> QED
        BY <3>1, <3>2, WorthInt, LedgerIsWorth, NextLedgerIsWorth
    <2>2. PICK m \in Int, n \in Int : m = LedgerBalance(u) /\ n = LedgerBalance(u)'
      BY <2>1
    <2>3. PICK k \in Int, l \in Int : k = balance[u] /\ l = balance'[u]
      BY <2>1
    <2>4. k = m
      BY <2>2, <2>3 DEF WalletMatchesLedger
    <2>5. l - n = k - m
      BY <2>2, <2>3, StepKeepsDrift
    <2>6. l = n
      BY <2>4, <2>5
    <2> QED
      BY <2>2, <2>3, <2>6
  <1> QED
    BY <1>1, <1>2, DepositInvariant, PTL DEF DepSpec

-----------------------------------------------------------------------------
(* Refinement *)

LEMMA InitRefines == DepInit => Atomic!CreditInit
  BY OpeningAssumption DEF DepInit, LedgerInit, Atomic!CreditInit

LEMMA StepRefines == DepInv /\ [DepNext]_depVars => [Atomic!CreditNext]_(Atomic!creditVars)
  <1> DEFINE Paid   == {u \in User : referral[u] = "REWARDED"}
             Active == {u \in User : active[u]}
             Goal   == [Atomic!CreditNext]_(Atomic!creditVars)
  <1> SUFFICES ASSUME DepInv, [DepNext]_depVars PROVE Goal
    OBVIOUS
  <1>0. /\ balance \in [User -> Int] /\ active \in [User -> BOOLEAN]
        /\ referral \in [User -> {"NONE", "COMPLETED", "REWARDED"}]
        /\ deposit \in [DOMAIN deposit -> [status : DepositStatus, user : User, points : Nat]]
        /\ DOMAIN deposit \subseteq Deposit
    BY DEF DepInv, DepTypeOK, LedgerTypeOK
  <1>1. ASSUME UNCHANGED <<deposit, balance, referral, active>> PROVE Goal
    BY <1>1 DEF Atomic!creditVars
  <1>2. ASSUME NEW u \in User, NEW d \in Deposit, NEW points \in Points, Submit(u, d, points)
        PROVE  Goal
    <2>1. Atomic!Submit(d, u, points)
      BY <1>2 DEF Submit, Atomic!Submit, Insert
    <2> QED
      BY <2>1 DEF Atomic!CreditNext
  <1>3. ASSUME NEW d \in DOMAIN deposit, NEW status \in {"SCHEDULED", "IN_PROGRESS", "PICKED_UP"},
               NEW calls, WriteStatus(d, status, calls)
        PROVE  Goal
    <2>1. Atomic!Move(d, status)
      BY <1>3 DEF WriteStatus, Atomic!Move
    <2> QED
      BY <1>0, <2>1 DEF Atomic!CreditNext
  <1>4. ASSUME NEW c \in Call, CommitReject(c) PROVE Goal
    <2>1. call[c].pc = "process" /\ call[c].status = "REJECTED"
      BY <1>4 DEF CommitReject
    <2>2. call[c].deposit \in DOMAIN deposit /\ deposit[call[c].deposit].status \notin Processed
      BY <2>1, JobFacts
    <2>3. Atomic!Reject(call[c].deposit)
      BY <1>4, <2>1, <2>2 DEF CommitReject, Decide, Atomic!Reject, Atomic!Undecided, Processed
    <2> QED
      BY <1>0, <2>2, <2>3 DEF Atomic!CreditNext
  <1>5. ASSUME NEW c \in Call, NEW t \in TxnId, CommitCredit(c, t) PROVE Goal
    <2> DEFINE d == call[c].deposit
    <2>1. call[c].pc = "process" /\ call[c].status = "CREDITED"
      BY <1>5 DEF CommitCredit
    <2>2. /\ d \in DOMAIN deposit /\ deposit[d].status \notin Processed
          /\ deposit[d].user = call[c].user /\ deposit[d].points = call[c].points
          /\ call[c].user \in User /\ call[c].seen = balance[call[c].user]
      BY <2>1, JobFacts
    <2>3. /\ deposit' = [deposit EXCEPT ![d].status = "CREDITED"]
          /\ balance' = [balance EXCEPT ![deposit[d].user] =
                            balance[deposit[d].user] + deposit[d].points]
          /\ UNCHANGED <<referral, active>>
      BY <1>5, <2>1, <2>2 DEF CommitCredit, Decide
    <2>4. Atomic!Credit(d)
      BY <1>0, <2>2, <2>3 DEF Atomic!Credit, Atomic!Undecided, Processed
    <2> QED
      BY <1>0, <2>2, <2>4 DEF Atomic!CreditNext
  <1>6. ASSUME NEW c \in Call, NEW t \in TxnId, NEW b \in TxnId, CommitCreditWithBonus(c, t, b)
        PROVE  Goal
    <2> DEFINE d     == call[c].deposit
               u     == deposit[d].user
    <2>1. call[c].pc = "process" /\ call[c].status = "CREDITED" /\ call[c].bonusTo # NoUser
      BY <1>6 DEF CommitCreditWithBonus
    <2>2. /\ d \in DOMAIN deposit /\ deposit[d].status \notin Processed
          /\ u = call[c].user /\ deposit[d].points = call[c].points /\ deposit[d].points \in Nat
          /\ u \in User /\ call[c].seen = balance[u]
          /\ call[c].bonusTo = Referrer[u] /\ Referrer[u] \in User /\ Referrer[u] # u
          /\ call[c].bonusSeen = balance[Referrer[u]]
          /\ referral[u] = "COMPLETED" /\ active[Referrer[u]]
      BY <2>1, JobFacts
    <2>3. PICK x \in 1 .. deposit[d].points + 1 :
            x = Bonus(deposit[d].points) /\ Atomic!IsBonus(x, deposit[d].points)
      BY <2>2, BonusFacts
    <2>4. /\ deposit' = [deposit EXCEPT ![d].status = "CREDITED"]
          /\ balance' = [balance EXCEPT ![u] = balance[u] + deposit[d].points,
                                       ![Referrer[u]] = balance[Referrer[u]] + x]
          /\ referral' = [referral EXCEPT ![u] = "REWARDED"]
          /\ UNCHANGED active
      BY <1>6, <2>1, <2>2, <2>3 DEF CommitCreditWithBonus, Decide, Rewarded
    <2>5. balance' = [balance EXCEPT ![u] = @ + deposit[d].points, ![Referrer[u]] = @ + x]
      BY <1>0, <2>2, <2>4
    <2>6. Paid' = Paid \cup {u} /\ u \notin Paid /\ Referrer[u] \in Active /\ Active' = Active
      BY <1>0, <2>2, <2>4
    <2>7. Atomic!CreditWithBonus(d, x)
      BY <2>2, <2>4, <2>5, <2>6 DEF Atomic!CreditWithBonus, Atomic!Undecided, Processed
    <2> QED
      BY <2>2, <2>3, <2>7 DEF Atomic!CreditNext
  <1>7. ASSUME NEW c \in Call, ToggleUserStatus(c) PROVE Goal
    <2>1. PICK users \in SUBSET User : users = Active'
      OBVIOUS
    <2>2. Atomic!SetActive(users)
      BY <1>7, <2>1 DEF ToggleUserStatus, Atomic!SetActive
    <2> QED
      BY <2>2 DEF Atomic!CreditNext
  <1>8. CASE UNCHANGED depVars
    BY <1>1, <1>8 DEF depVars
  <1>9. ASSUME NEW c \in Call, Process(c) PROVE Goal
    <2>1. ASSUME NEW d \in Deposit, NEW status \in Processed, BeginProcess(c, d, status)
          PROVE  Goal
      BY <1>1, <2>1 DEF BeginProcess, BeginProcess_Unguarded
    <2>2. CASE AbortProcess(c) \/ Tell(c)
      BY <1>1, <2>2 DEF AbortProcess, Tell
    <2> QED
      BY <1>4, <1>5, <1>6, <1>9, <2>1, <2>2 DEF Process
  <1>10. CASE Pickup
    <2>1. ASSUME NEW c \in Call, NEW d \in Deposit, CheckPickedUp(c, d) PROVE Goal
      BY <1>1, <2>1 DEF CheckPickedUp
    <2>2. ASSUME NEW c \in Call, MarkPickedUp(c) PROVE Goal
      <3>1. call[c].deposit \in DOMAIN deposit
        BY <2>2 DEF MarkPickedUp, DepInv, PickupsKnown
      <3> QED
        BY <1>3, <2>2, <3>1 DEF MarkPickedUp
    <2>3. ASSUME NEW d \in Deposit, SchedulePickup(d) \/ MarkPickupArrived(d) PROVE Goal
      BY <1>3, <2>3 DEF SchedulePickup, MarkPickupArrived
    <2> QED
      BY <1>10, <2>1, <2>2, <2>3 DEF Pickup
  <1>11. ASSUME NEW c \in Call, NEW u \in Toggled, ReadUserStatus(c, u) PROVE Goal
    BY <1>1, <1>11 DEF ReadUserStatus
  <1> QED
    BY <1>2, <1>7, <1>8, <1>9, <1>10, <1>11 DEF DepNext

\* Snapshots, open transactions and their aborts cannot be told from a processing
\* that decides a deposit, credits it and pays the bonus in one indivisible step.
THEOREM DepositsImplementAtomicCredit == DepSpec => ImplementsAtomicCredit
  <1> QED
    BY InitRefines, StepRefines, DepositInvariant, PTL
    DEF DepSpec, ImplementsAtomicCredit, Atomic!CreditSpec
=============================================================================
