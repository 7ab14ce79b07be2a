---------------------------- MODULE WalletProofs ----------------------------
(***************************************************************************)
(* The payments and the credits of Wallet together, for any number of      *)
(* users, requests, admins and rows.                                       *)
(*                                                                         *)
(* WalletInv is inductive: a payment's step leaves the credit rows and     *)
(* what open credits have read alone, but for the transactions it dooms    *)
(* (PaymentsSpareCredits); a credit only adds points and settled rows      *)
(* (CreditsSparePayments).  What each side is proved to do by itself then  *)
(* holds of its steps in the whole.                                        *)
(***************************************************************************)
EXTENDS Wallet, PaymentsProofs, DepositProofs

LEMMA WalletInitInv == WalletInit => WalletInv
  BY PayInitCore, InitInv DEF WalletInit, WalletInv

-----------------------------------------------------------------------------
(* A step of the payments *)

\* A payment writes the rows of purchases and transfers only.
LEMMA DebitRowsOnly ==
  ASSUME PayCore, PayNext
  PROVE  /\ \A t \in DOMAIN txn : t \in DOMAIN txn'
         /\ \A t \in DOMAIN txn : txn[t].type \in CreditType => txn'[t] = txn[t]
         /\ \A t \in DOMAIN txn' : txn'[t].type \in CreditType =>
              t \in DOMAIN txn /\ txn[t].type \in CreditType
         /\ \A u \in User : balance'[u] # balance[u] => u \in Debited
  <1> DEFINE Goal == /\ \A t \in DOMAIN txn : t \in DOMAIN txn'
                     /\ \A t \in DOMAIN txn : txn[t].type \in CreditType => txn'[t] = txn[t]
                     /\ \A t \in DOMAIN txn' : txn'[t].type \in CreditType =>
                          t \in DOMAIN txn /\ txn[t].type \in CreditType
                     /\ \A u \in User : balance'[u] # balance[u] => u \in Debited
  <1> SUFFICES Goal
    OBVIOUS
  <1>0. PayTypeOK /\ CreditType \cap DebitType = {}
    BY DEF PayCore, CreditType, DebitType
  <1>1. ASSUME NEW t \in DOMAIN txn, NEW row, txn' = [txn EXCEPT ![t] = row],
               txn[t].type \in DebitType, row.type = txn[t].type
        PROVE  /\ DOMAIN txn' = DOMAIN txn
               /\ \A x \in DOMAIN txn : txn[x].type \in CreditType => txn'[x] = txn[x]
               /\ \A x \in DOMAIN txn : txn'[x].type \in CreditType => txn[x].type \in CreditType
    <2>1. /\ DOMAIN txn' = DOMAIN txn /\ txn'[t] = row
          /\ \A x \in DOMAIN txn : x # t => txn'[x] = txn[x]
      BY <1>0, <1>1 DEF PayTypeOK, LedgerTypeOK
    <2> QED
      BY <1>0, <1>1, <2>1
  <1>2. ASSUME NEW r \in Req, Commit(r) PROVE Goal
    <2> DEFINE t == req[r].txn
    <2>1. req[r] \in Job /\ At(r, "commit") /\ Goto(r, "notify")
      BY <1>0, <1>2, BusyIsJob DEF Commit, At, PayTypeOK
    <2>2. t \in DOMAIN txn /\ txn[t] \in Row /\ txn[t].type \in DebitType
      BY <2>1 DEF PayCore, RequestRow, RequestStage, HasRow, At, PayTypeOK, LedgerTypeOK, DebitType
    <2>3. PaidRow(txn[t], req[r]).type = txn[t].type
      BY <2>1, <2>2, PaidRowFields
    <2>4. txn' = [txn EXCEPT ![t] = PaidRow(txn[t], req[r])]
      BY <1>2 DEF Commit
    <2>5. /\ DOMAIN txn' = DOMAIN txn
          /\ \A x \in DOMAIN txn : txn[x].type \in CreditType => txn'[x] = txn[x]
          /\ \A x \in DOMAIN txn : txn'[x].type \in CreditType => txn[x].type \in CreditType
      BY <1>1, <2>2, <2>3, <2>4
    <2>6. req'[r].pc = "notify"
      BY <1>0, <2>1 DEF Goto, PayTypeOK, Job
    <2>7. req[r].user \in Debited
      BY <2>1, <2>6 DEF Debited
    <2>8. \A u \in User : u # req[r].user => balance'[u] = balance[u]
      BY <1>0, <1>2 DEF Commit, PayTypeOK, LedgerTypeOK
    <2> QED
      BY <2>5, <2>7, <2>8
  <1>3. ASSUME NEW r \in Req, MarkFailed(r) PROVE Goal
    <2> DEFINE t   == req[r].txn
               row == [txn[t] EXCEPT !.status = "FAILED"]
    <2>1. t \in DOMAIN txn /\ txn[t] \in Row /\ txn[t].type \in DebitType
      BY <1>3 DEF MarkFailed, PayCore, RequestRow, RequestStage, HasRow, At, PayTypeOK,
                  LedgerTypeOK, DebitType
    <2>2. row.type = txn[t].type
      BY <2>1 DEF Row
    <2>3. txn' = [txn EXCEPT ![t] = row] /\ UNCHANGED balance
      BY <1>3 DEF MarkFailed
    <2> HIDE DEF row
    <2>4. /\ DOMAIN txn' = DOMAIN txn
          /\ \A x \in DOMAIN txn : txn[x].type \in CreditType => txn'[x] = txn[x]
          /\ \A x \in DOMAIN txn : txn'[x].type \in CreditType => txn[x].type \in CreditType
      BY <1>1, <2>1, <2>2, <2>3
    <2> QED
      BY <2>3, <2>4
  <1>4. ASSUME NEW r \in Req, NEW t \in TxnId, CreateRow(r, t) PROVE Goal
    <2>1. /\ DOMAIN txn' = DOMAIN txn \cup {t} /\ t \notin DOMAIN txn /\ UNCHANGED balance
          /\ \A x \in DOMAIN txn : txn'[x] = txn[x]
          /\ txn'[t].type \in DebitType
      BY <1>4 DEF CreateRow, WithRow, Insert, DebitType
    <2> QED
      BY <1>0, <2>1
  <1>5. CASE UNCHANGED <<balance, txn>>
    BY <1>5
  <1>6. UNCHANGED <<balance, txn>> \/ \E r \in Req : \/ Commit(r) \/ MarkFailed(r)
                                                   \/ \E t \in TxnId : CreateRow(r, t)
    BY DEF PayNext, Arrive, Advance, Fail, BillRead, InitiateRead, CompleteLookup,
           ResolveAccount, CreateRefused, CompleteRead, ProviderAccepts, ProviderRefuses,
           Notify, AnswerLost, CommitAborts, MarkFailedFails, Crash
  <1> QED
    BY <1>2, <1>3, <1>4, <1>5, <1>6

\* What open credits have read, and what is known of the rows of finished ones,
\* survives a payment: the transactions that are to write the debited wallet are
\* doomed.
LEMMA PaymentsSpareCredits ==
  ASSUME WalletInv, PaymentStep
  PROVE  DepInv'
  <1> DEFINE docs == {UserDoc(u) : u \in Debited}
  <1>0. /\ PayCore /\ PayCore' /\ DepTypeOK /\ DataFacts /\ CallFacts
        /\ call \in [Call -> AnyCall]
    BY PayNextCore, Halves DEF WalletInv, PaymentStep, DepTypeOK, AnyCall
  <1>1. /\ \A t \in DOMAIN txn : t \in DOMAIN txn'
        /\ \A t \in DOMAIN txn : txn[t].type \in CreditType => txn'[t] = txn[t]
        /\ \A t \in DOMAIN txn' : txn'[t].type \in CreditType =>
             t \in DOMAIN txn /\ txn[t].type \in CreditType
        /\ \A u \in User : balance'[u] # balance[u] => u \in Debited
    BY <1>0, DebitRowsOnly DEF PaymentStep
  <1>2. UNCHANGED <<deposit, referral, active, origin>> /\ call' = Touch(call, docs)
    BY DEF PaymentStep
  <1> HIDE DEF docs
  <1>3. \A t \in DOMAIN origin : t \in DOMAIN txn /\ txn'[t] = txn[t]
    BY <1>0, <1>1 DEF DataFacts, RowsHaveOrigin
  <1>4. /\ call' \in [Call -> AnyCall]
        /\ \A c \in Call : call'[c] \in {call[c], Doomed}
        /\ \A c \in Call : call'[c].pc = "process" =>
             call'[c] = call[c] /\ Written(call[c]) \cap docs = {}
    <2> DEFINE touched == Touch(call, docs)
    <2>1. /\ touched \in [Call -> AnyCall]
          /\ \A c \in Call : touched[c] \in {call[c], Doomed}
          /\ \A c \in Call : touched[c].pc = "process" =>
               touched[c] = call[c] /\ Written(call[c]) \cap docs = {}
      BY <1>0, TouchFacts
    <2> QED
      BY <1>2, <2>1
  <1>5. DepTypeOK'
    <2>1. LedgerTypeOK'
      BY <1>0 DEF PayCore, PayTypeOK
    <2>2. DOMAIN origin' \subseteq DOMAIN txn'
      BY <1>0, <1>1, <1>2 DEF DepTypeOK
    <2> QED
      BY <1>0, <1>2, <1>4, <2>1, <2>2 DEF DepTypeOK, AnyCall
  <1>6. /\ CreditedHasRow' /\ BonusFollowsCredit' /\ OneBonusRow' /\ ReferralsKnown'
    <2>1. \A d : CreditRows(d)' = CreditRows(d)
      BY <1>2, <1>3 DEF CreditRows
    <2>2. \A u \in User : BonusRows(u)' = BonusRows(u)
      BY <1>2, <1>3 DEF BonusRows
    <2>3. OneBonusRow' /\ ReferralsKnown'
      BY <1>0, <1>2, <2>2 DEF DataFacts, OneBonusRow, ReferralsKnown
    <2>4. CreditedHasRow'
      BY <1>0, <1>2, <1>3 DEF DataFacts, CreditedHasRow, CreditRows
    <2>5. BonusFollowsCredit'
      BY <1>0, <1>2, <1>3 DEF DataFacts, BonusFollowsCredit, CreditRows, Atomic!IsBonus
    <2> QED
      BY <2>3, <2>4, <2>5
  <1>7. RowsHaveOrigin'
    <2>1. DOMAIN origin' = {t \in DOMAIN txn' : txn'[t].type \in CreditType}
      BY <1>0, <1>1, <1>2 DEF DataFacts, RowsHaveOrigin
    <2>2. \A t \in DOMAIN origin' :
            /\ txn'[t].status = "COMPLETED"
            /\ origin'[t] \in DOMAIN deposit'
            /\ txn'[t].type = "DEPOSIT" => txn'[t].user = deposit'[origin'[t]].user
      BY <1>0, <1>2, <1>3 DEF DataFacts, RowsHaveOrigin
    <2> QED
      BY <2>1, <2>2 DEF RowsHaveOrigin
  <1>8. ToldOfCreditedPoints'
    BY <1>0 DEF PayCore, NoticeOnlyAfterCompletion, ToldOfCreditedPoints
  <1>9. SnapshotsHold'
    <2> SUFFICES ASSUME NEW c \in Call, call'[c].pc = "process"
                 PROVE  /\ call'[c] = call[c]
                        /\ call[c].status = "CREDITED" => balance'[call[c].user] = balance[call[c].user]
                        /\ call[c].bonusTo # NoUser =>
                             balance'[call[c].bonusTo] = balance[call[c].bonusTo]
      <3>1. \A c \in Call : call[c].pc = "process" =>
              /\ call[c].deposit \in DOMAIN deposit'
              /\ deposit'[call[c].deposit].status \notin Processed
              /\ deposit'[call[c].deposit].user = call[c].user
              /\ deposit'[call[c].deposit].points = call[c].points
              /\ call[c].status = "CREDITED" => call[c].seen = balance[call[c].user]
              /\ call[c].bonusTo # NoUser =>
                   /\ call[c].status = "CREDITED"
                   /\ call[c].bonusTo = Referrer[call[c].user]
                   /\ referral'[call[c].user] = "COMPLETED"
                   /\ call[c].bonusSeen = balance[call[c].bonusTo]
                   /\ active'[call[c].bonusTo]
        BY <1>0, <1>2 DEF CallFacts, SnapshotsHold
      <3> QED
        BY <3>1 DEF SnapshotsHold
    <2>1. call'[c] = call[c] /\ Written(call[c]) \cap docs = {}
      BY <1>4
    <2>2. /\ call[c].user \in User
          /\ call[c].bonusTo # NoUser => call[c].bonusTo \in User
      BY <2>1, JobFacts DEF WalletInv
    <2>3. /\ call[c].status = "CREDITED" => call[c].user \notin Debited
          /\ call[c].bonusTo # NoUser => call[c].bonusTo \notin Debited
      BY <2>1 DEF Written, docs
    <2> QED
      BY <1>1, <2>1, <2>2, <2>3
  <1>10. ToldAfterCommit' /\ PickupsKnown'
    <2>1. \A c \in Call : call'[c].pc \in {"tell", "pickup"} => call'[c] = call[c]
      BY <1>4, RestFacts
    <2> QED
      BY <1>0, <1>2, <2>1 DEF CallFacts, ToldAfterCommit, PickupsKnown
  <1> QED
    BY <1>5, <1>6, <1>7, <1>8, <1>9, <1>10 DEF DepInv

-----------------------------------------------------------------------------
(* A step of the deposit handlers *)

\* A credit adds points and settled rows, and tells of settled rows only.
LEMMA CreditsOnlyAdd ==
  ASSUME DepInv, DepNext
  PROVE  /\ \A t \in DOMAIN txn : t \in DOMAIN txn' /\ txn'[t] = txn[t]
         /\ \A t \in DOMAIN txn' \ DOMAIN txn :
              /\ txn'[t].status = "COMPLETED" /\ txn'[t].type \in CreditType
              /\ txn'[t].after = txn'[t].before + txn'[t].amount
         /\ \A u \in User : balance'[u] >= balance[u]
         /\ \A t \in noticed' : t \in noticed \/ (t \in DOMAIN txn /\ txn[t].status = "COMPLETED")
  <1> DEFINE Goal == /\ \A t \in DOMAIN txn : t \in DOMAIN txn' /\ txn'[t] = txn[t]
                     /\ \A t \in DOMAIN txn' \ DOMAIN txn :
                          /\ txn'[t].status = "COMPLETED" /\ txn'[t].type \in CreditType
                          /\ txn'[t].after = txn'[t].before + txn'[t].amount
                     /\ \A u \in User : balance'[u] >= balance[u]
  <1>0. balance \in [User -> Int]
    BY DEF DepInv, DepTypeOK, LedgerTypeOK
  <1>1. ASSUME UNCHANGED <<balance, txn>> PROVE Goal
    BY <1>0, <1>1
  <1>2. ASSUME NEW c \in Call, NEW t \in TxnId, CommitCredit(c, t) PROVE Goal /\ noticed' = noticed
    <2>1. PICK u \in User, points \in Nat :
            /\ t \notin DOMAIN txn /\ noticed' = noticed
            /\ txn' = Insert(txn, t, CreditRow(u, "DEPOSIT", points, balance[u]))
            /\ balance' = [balance EXCEPT ![u] = balance[u] + points]
      BY <1>2, CreditAdds
    <2>2. /\ DOMAIN txn' = DOMAIN txn \cup {t} /\ \A x \in DOMAIN txn : txn'[x] = txn[x]
          /\ txn'[t] = CreditRow(u, "DEPOSIT", points, balance[u])
      BY <2>1 DEF Insert
    <2>3. /\ txn'[t].status = "COMPLETED" /\ txn'[t].type \in CreditType
          /\ txn'[t].after = txn'[t].before + txn'[t].amount
      BY <2>2 DEF CreditRow, CreditType
    <2>4. \A v \in User : balance'[v] >= balance[v]
      BY <1>0, <2>1
    <2> QED
      BY <2>1, <2>2, <2>3, <2>4
  <1>3. ASSUME NEW c \in Call, NEW t \in TxnId, NEW b \in TxnId, CommitCreditWithBonus(c, t, b)
        PROVE  Goal /\ noticed' = noticed
    <2>1. PICK u \in User, w \in User, points \in Nat :
            /\ t \notin DOMAIN txn /\ b \notin DOMAIN txn /\ t # b /\ u # w /\ noticed' = noticed
            /\ txn' = Insert(Insert(txn, t, CreditRow(u, "DEPOSIT", points, balance[u])),
                             b, CreditRow(w, "REFERRAL", Bonus(points), balance[w]))
            /\ balance' = [balance EXCEPT ![u] = balance[u] + points,
                                          ![w] = balance[w] + Bonus(points)]
      BY <1>3, BonusAdds
    <2>2. PICK bonus \in Nat : bonus = Bonus(points)
      BY BonusFacts
    <2>3. /\ DOMAIN txn' = DOMAIN txn \cup {t, b} /\ \A x \in DOMAIN txn : txn'[x] = txn[x]
          /\ txn'[t] = CreditRow(u, "DEPOSIT", points, balance[u])
          /\ txn'[b] = CreditRow(w, "REFERRAL", bonus, balance[w])
      BY <2>1, <2>2 DEF Insert
    <2>4. \A x \in {t, b} : /\ txn'[x].status = "COMPLETED" /\ txn'[x].type \in CreditType
                            /\ txn'[x].after = txn'[x].before + txn'[x].amount
      BY <2>3 DEF CreditRow, CreditType
    <2>5. \A v \in User : balance'[v] >= balance[v]
      BY <1>0, <2>1, <2>2
    <2> QED
      BY <2>1, <2>3, <2>4, <2>5
  <1>4. \/ noticed' = noticed
        \/ \A t \in noticed' : t \in noticed \/ (t \in DOMAIN txn /\ txn[t].status = "COMPLETED")
    <2>1. ASSUME NEW c \in Call, Tell(c), NEW t \in noticed', t \notin noticed
          PROVE  t \in DOMAIN txn /\ txn[t].status = "COMPLETED"
      <3>1. t \in DOMAIN origin
        BY <2>1 DEF Tell, DepInv, ToldAfterCommit
      <3> QED
        BY <3>1 DEF DepInv, RowsHaveOrigin
    <2>2. ASSUME NEW c \in Call, Process(c) PROVE noticed' = noticed \/ Tell(c)
      BY <2>2 DEF Process, BeginProcess, BeginProcess_Unguarded, CommitReject, CommitCredit,
             CommitCreditWithBonus, AbortProcess
    <2>3. Pickup => noticed' = noticed
      BY DEF Pickup, SchedulePickup, MarkPickupArrived, CheckPickedUp, MarkPickedUp, WriteStatus
    <2> QED
      BY <2>1, <2>2, <2>3 DEF DepNext, Submit, ReadUserStatus, ToggleUserStatus
  <1> QED
    BY <1>1, <1>2, <1>3, <1>4, OnlyCreditsMove

\* What the requests know at each of their awaits survives a credit.
LEMMA CreditsSparePayments ==
  ASSUME WalletInv, DepositStep
  PROVE  PayCore'
  <1>0. PayCore /\ DepInv /\ DepInv' /\ DepNext /\ UNCHANGED <<req, accepted, faults>>
    BY NextKeepsInv DEF WalletInv, DepositStep
  <1>1. /\ \A t \in DOMAIN txn : t \in DOMAIN txn' /\ txn'[t] = txn[t]
        /\ \A t \in DOMAIN txn' \ DOMAIN txn :
             /\ txn'[t].status = "COMPLETED" /\ txn'[t].type \in CreditType
             /\ txn'[t].after = txn'[t].before + txn'[t].amount
        /\ \A u \in User : balance'[u] >= balance[u]
        /\ \A t \in noticed' : t \in noticed \/ (t \in DOMAIN txn /\ txn[t].status = "COMPLETED")
    BY <1>0, CreditsOnlyAdd
  <1>2. PayTypeOK'
    BY <1>0 DEF PayCore, PayTypeOK, DepInv, DepTypeOK
  <1>3. \A r \in Req : HasRow(r) => req[r].txn \in DOMAIN txn /\ txn'[req[r].txn] = txn[req[r].txn]
    BY <1>0, <1>1 DEF PayCore, RequestRow
  <1>4. \A r \in Req : (HasRow(r)' <=> HasRow(r)) /\ \A pc : At(r, pc)' <=> At(r, pc)
    BY <1>0 DEF HasRow, At
  <1>5. RequestRow'
    BY <1>0, <1>1, <1>3, <1>4 DEF PayCore, RequestRow
  <1>6. RequestStage'
    BY <1>0, <1>3 DEF PayCore, RequestStage, HasRow
  <1>7. BillOwnsRow'
    BY <1>0, <1>3, <1>4 DEF PayCore, BillOwnsRow
  <1>8. BillSentOnce'
    BY <1>0, <1>4 DEF PayCore, BillSentOnce
  <1>9. TransferDebitedOnce'
    BY <1>0, <1>3, <1>4 DEF PayCore, TransferDebitedOnce, HasRow, At
  <1>10. RowsSound'
    BY <1>0, <1>1 DEF PayCore, RowsSound
  <1>11. NonNegativeBalance'
    <2>1. balance \in [User -> Int] /\ balance' \in [User -> Int]
      BY <1>0 DEF DepInv, DepTypeOK, LedgerTypeOK
    <2> QED
      BY <1>0, <1>1, <2>1 DEF PayCore, NonNegativeBalance
  <1>12. CompletedWasAccepted'
    <2>1. CreditType \cap DebitType = {}
      BY DEF CreditType, DebitType
    <2> QED
      BY <1>0, <1>1, <2>1 DEF PayCore, CompletedWasAccepted
  <1>13. NoticeOnlyAfterCompletion'
    BY <1>0, <1>1 DEF PayCore, NoticeOnlyAfterCompletion
  <1>14. RowsAdd'
    <2>1. CreditType \cap DebitType = {}
      BY DEF CreditType, DebitType
    <2> QED
      BY <1>0, <1>1, <2>1 DEF PayCore, RowsAdd
  <1>15. DeliveredIsCharged'
    BY <1>0, <1>1, <1>4 DEF PayCore, DeliveredIsCharged, RowsSound
  <1> QED
    BY <1>2, <1>5, <1>6, <1>7, <1>8, <1>9, <1>10, <1>11, <1>12, <1>13, <1>14, <1>15 DEF PayCore

-----------------------------------------------------------------------------
(* The row that a wallet moves with *)

LEMMA PaymentMoves ==
  ASSUME PayCore, ProviderRejectsDuplicates, PayNext, NEW u \in User, balance'[u] # balance[u]
  PROVE  \E t \in DOMAIN txn' : /\ t \in DOMAIN txn => txn[t].status = "PENDING"
                                /\ txn'[t].status = "COMPLETED"
                                /\ txn'[t].user = u
                                /\ txn'[t].after = balance'[u]
  <1>1. PICK r \in Req : Commit(r)
    BY OtherLedgers
  <1> DEFINE t == req[r].txn
  <1>2. req[r] \in Job
    BY <1>1, BusyIsJob DEF Commit, At, PayCore
  <1>3. t \in DOMAIN txn /\ txn[t] \in Row /\ txn[t].status = "PENDING" /\ txn[t].user = req[r].user
    BY <1>1, WritesPending DEF PayCore, PayTypeOK, LedgerTypeOK
  <1>4. /\ PaidRow(txn[t], req[r]).status = "COMPLETED"
        /\ PaidRow(txn[t], req[r]).user = req[r].user
        /\ PaidRow(txn[t], req[r]).after = Rest(req[r])
    BY <1>2, <1>3, PaidRowFields
  <1>5. t \in DOMAIN txn' /\ txn'[t] = PaidRow(txn[t], req[r])
    BY <1>1, <1>3 DEF Commit, PayCore, PayTypeOK, LedgerTypeOK
  <1>6. u = req[r].user /\ balance'[u] = Rest(req[r])
    BY <1>1 DEF Commit, PayCore, PayTypeOK, LedgerTypeOK
  <1> QED
    BY <1>3, <1>4, <1>5, <1>6

LEMMA CreditMoves ==
  ASSUME DepInv, DepNext, NEW u \in User, balance'[u] # balance[u]
  PROVE  \E t \in DOMAIN txn' : /\ t \notin DOMAIN txn
                                /\ txn'[t].status = "COMPLETED"
                                /\ txn'[t].user = u
                                /\ txn'[t].after = balance'[u]
  <1> DEFINE Goal == \E t \in DOMAIN txn' : /\ t \notin DOMAIN txn
                                            /\ txn'[t].status = "COMPLETED"
                                            /\ txn'[t].user = u
                                            /\ txn'[t].after = balance'[u]
  <1>0. balance \in [User -> Int]
    BY DEF DepInv, DepTypeOK, LedgerTypeOK
  <1>1. ASSUME NEW c \in Call, NEW t \in TxnId, CommitCredit(c, t) PROVE Goal
    <2>1. PICK v \in User, points \in Nat :
            /\ t \notin DOMAIN txn
            /\ txn' = Insert(txn, t, CreditRow(v, "DEPOSIT", points, balance[v]))
            /\ balance' = [balance EXCEPT ![v] = balance[v] + points]
      BY <1>1, CreditAdds
    <2>2. u = v /\ balance'[u] = balance[u] + points
      BY <1>0, <2>1
    <2>3. t \in DOMAIN txn' /\ txn'[t] = CreditRow(u, "DEPOSIT", points, balance[u])
      BY <2>1, <2>2 DEF Insert
    <2> QED
      BY <2>1, <2>2, <2>3 DEF CreditRow
  <1>2. ASSUME NEW c \in Call, NEW t \in TxnId, NEW b \in TxnId, CommitCreditWithBonus(c, t, b)
        PROVE  Goal
    <2>1. PICK v \in User, w \in User, points \in Nat :
            /\ t \notin DOMAIN txn /\ b \notin DOMAIN txn /\ t # b /\ v # w
            /\ txn' = Insert(Insert(txn, t, CreditRow(v, "DEPOSIT", points, balance[v])),
                             b, CreditRow(w, "REFERRAL", Bonus(points), balance[w]))
            /\ balance' = [balance EXCEPT ![v] = balance[v] + points,
                                          ![w] = balance[w] + Bonus(points)]
      BY <1>2, BonusAdds
    <2>2. /\ t \in DOMAIN txn' /\ txn'[t] = CreditRow(v, "DEPOSIT", points, balance[v])
          /\ b \in DOMAIN txn' /\ txn'[b] = CreditRow(w, "REFERRAL", Bonus(points), balance[w])
      BY <2>1 DEF Insert
    <2>3. CASE u = v
      <3>1. balance'[u] = balance[u] + points
        BY <1>0, <2>1, <2>3
      <3> QED
        BY <2>1, <2>2, <2>3, <3>1 DEF CreditRow
    <2>4. CASE u = w
      <3>1. balance'[u] = balance[u] + Bonus(points)
        BY <1>0, <2>1, <2>4
      <3> QED
        BY <2>1, <2>2, <2>4, <3>1 DEF CreditRow
    <2> QED
      BY <1>0, <2>1, <2>3, <2>4
  <1> QED
    BY <1>1, <1>2, OnlyCreditsMove

-----------------------------------------------------------------------------
(* Every step *)

LEMMA WalletNextInv == WalletInv /\ [WalletNext]_walletVars => WalletInv'
  <1> SUFFICES ASSUME WalletInv, [WalletNext]_walletVars PROVE WalletInv'
    OBVIOUS
  <1>1. CASE PaymentStep
    BY <1>1, PaymentsSpareCredits, PayNextCore DEF PaymentStep, WalletInv
  <1>2. CASE DepositStep
    BY <1>2, CreditsSparePayments, NextKeepsInv DEF DepositStep, WalletInv
  <1>3. CASE UNCHANGED walletVars
    BY <1>3, PayNextCore, NextKeepsInv DEF walletVars, payVars, depVars, WalletInv
  <1> QED
    BY <1>1, <1>2, <1>3 DEF WalletNext

\* Both inductive invariants hold in every behaviour of the whole wallet.
THEOREM WalletInvariant == WalletSpec => []WalletInv
  <1> QED
    BY WalletInitInv, WalletNextInv, PTL DEF WalletSpec

\* No wallet is overdrawn, however payments, credits and bonuses interleave.
THEOREM WalletNeverOverdrawn == WalletSpec => []NonNegativeBalance
  <1>1. WalletInv => NonNegativeBalance
    BY DEF WalletInv, PayCore
  <1> QED
    BY <1>1, WalletInvariant, PTL

\* A referral is paid for once, whatever is spent meanwhile.
THEOREM WalletPaysBonusOnce == WalletSpec => []ReferralPaidOnce
  <1>1. WalletInv => ReferralPaidOnce
    BY InvPaysOnce DEF WalletInv
  <1> QED
    BY <1>1, WalletInvariant, PTL

\* A credit moves the owner's and the referrer's wallet by exactly what is due,
\* although payments of both write their balances while it is open.
THEOREM WalletCreditsAreExact == WalletSpec => CreditIsExact
  <1> DEFINE Exact(d) == LET u == deposit[d].user IN
               /\ balance'[u] = balance[u] + deposit[d].points
               /\ \A v \in User \ {u} :
                    balance'[v] - balance[v] =
                      IF v = Referrer[u] /\ referral'[u] # referral[u]
                        THEN Bonus(deposit[d].points) ELSE 0
  <1>1. ASSUME WalletInv, WalletNext, NEW d \in DOMAIN deposit, Becomes(d, "CREDITED")
        PROVE  Exact(d)
    <2>1. ~PaymentStep
      BY <1>1 DEF PaymentStep, Becomes
    <2>2. DepInv /\ DepNext
      BY <1>1, <2>1 DEF WalletNext, DepositStep, WalletInv
    <2> QED
      BY <1>1, <2>2, CreditStepExact
  <1>2. WalletInv /\ [WalletNext]_walletVars =>
          [\A d \in DOMAIN deposit : Becomes(d, "CREDITED") => Exact(d)]_depVars
    <2> HIDE DEF Exact
    <2> QED
      BY <1>1 DEF walletVars, depVars
  <1> QED
    BY <1>2, WalletInvariant, PTL DEF WalletSpec, CreditIsExact

\* Wallet and ledger drift apart at no other point than the debit of a request
\* whose user's balance has changed since it was read: no credit, bonus, abort or
\* failed payment ever does it.
THEOREM WalletDriftExplained ==
  ASSUME ProviderRejectsDuplicates
  PROVE  WalletSpec => DriftOnlyFromStaleDebit
  <1>1. ASSUME WalletInv, [WalletNext]_walletVars, NEW u \in User,
               balance'[u] - LedgerBalance(u)' # balance[u] - LedgerBalance(u)
        PROVE  \E r \in Req : At(r, "commit") /\ req[r].user = u /\ req[r].seen # balance[u]
    <2>1. ~[DepNext]_depVars
      BY <1>1, StepKeepsDrift DEF WalletInv
    <2>2. PaymentStep
      BY <1>1, <2>1 DEF WalletNext, DepositStep, walletVars, depVars
    <2> QED
      BY <1>1, <2>2, StepDrifts DEF WalletInv, PaymentStep
  <1>2. WalletInv /\ [WalletNext]_walletVars =>
          [\A u \in User :
             balance'[u] - LedgerBalance(u)' # balance[u] - LedgerBalance(u) =>
               \E r \in Req : /\ At(r, "commit")
                              /\ req[r].user = u
                              /\ req[r].seen # balance[u]]_payVars
    BY <1>1
  <1> QED
    BY <1>2, WalletInvariant, PTL DEF WalletSpec, DriftOnlyFromStaleDebit

\* A settled row stays as it is, be it of a payment, a credit or a bonus.
THEOREM WalletRowsAreFinal ==
  ASSUME ProviderRejectsDuplicates
  PROVE  WalletSpec => SettledRowsAreFinal
  <1>1. ASSUME WalletInv, [WalletNext]_walletVars, NEW t \in DOMAIN txn, txn[t].status # "PENDING"
        PROVE  txn'[t] = txn[t]
    <2>1. CASE PaymentStep
      BY <1>1, <2>1, StepSettles DEF PaymentStep, WalletInv
    <2>2. CASE DepositStep
      BY <1>1, <2>2, CreditsOnlyAdd DEF DepositStep, WalletInv
    <2>3. CASE UNCHANGED walletVars
      BY <2>3 DEF walletVars
    <2> QED
      BY <1>1, <2>1, <2>2, <2>3 DEF WalletNext
  <1>2. WalletInv /\ [WalletNext]_walletVars =>
          [\A t \in DOMAIN txn : txn[t].status # "PENDING" => txn'[t] = txn[t]]_payVars
    BY <1>1
  <1> QED
    BY <1>2, WalletInvariant, PTL DEF WalletSpec, SettledRowsAreFinal

\* An admin's decision is taken on an undecided deposit only, and is final.
THEOREM WalletDecisionsAreFinal == WalletSpec => DecidesUndecided
  <1>1. ASSUME WalletInv, WalletNext, NEW d \in DOMAIN deposit, NEW s \in Processed, Becomes(d, s)
        PROVE  deposit[d].status \notin Processed
    <2>1. ~PaymentStep
      BY <1>1 DEF PaymentStep, Becomes
    <2>2. DepInv /\ DepNext
      BY <1>1, <2>1 DEF WalletNext, DepositStep, WalletInv
    <2> QED
      BY <1>1, <2>2, OnlyCommitsDecide
  <1>2. WalletInv /\ [WalletNext]_walletVars =>
          [\A d \in DOMAIN deposit :
             (\E s \in Processed : Becomes(d, s)) => deposit[d].status \notin Processed]_depVars
    BY <1>1 DEF walletVars, depVars
  <1> QED
    BY <1>2, WalletInvariant, PTL DEF WalletSpec, DecidesUndecided

\* Every move of a wallet, by a payment, a credit or a bonus, is shown by a row of
\* its user that is completed in the same step.
THEOREM WalletMovesAreShown ==
  ASSUME ProviderRejectsDuplicates
  PROVE  WalletSpec => WalletMovesWithItsRow
  <1>1. ASSUME WalletInv, WalletNext, NEW u \in User, balance'[u] # balance[u]
        PROVE  \E t \in DOMAIN txn' : /\ t \in DOMAIN txn => txn[t].status = "PENDING"
                                      /\ txn'[t].status = "COMPLETED"
                                      /\ txn'[t].user = u
                                      /\ txn'[t].after = balance'[u]
    BY <1>1, PaymentMoves, CreditMoves DEF WalletNext, PaymentStep, DepositStep, WalletInv
  <1>2. WalletInv /\ [WalletNext]_walletVars =>
          [\A u \in User : balance'[u] # balance[u] =>
             \E t \in DOMAIN txn' : /\ t \in DOMAIN txn => txn[t].status = "PENDING"
                                    /\ txn'[t].status = "COMPLETED"
                                    /\ txn'[t].user = u
                                    /\ txn'[t].after = balance'[u]]_walletVars
    BY <1>1
  <1> QED
    BY <1>2, WalletInvariant, PTL DEF WalletSpec, WalletMovesWithItsRow

\* With payments beside them, the deposit handlers still implement the processing
\* that credits a deposit in one indivisible step.
THEOREM WalletImplementsSharedCredit == WalletSpec => ImplementsSharedCredit
  <1>1. WalletInit => Atomic!CreditInit
    BY InitRefines DEF WalletInit
  <1>2. WalletInv /\ [WalletNext]_walletVars =>
          [Atomic!CreditNext \/ Atomic!Spend]_(Atomic!creditVars)
    <2> SUFFICES ASSUME WalletInv, [WalletNext]_walletVars
                 PROVE  [Atomic!CreditNext \/ Atomic!Spend]_(Atomic!creditVars)
      OBVIOUS
    <2>1. CASE PaymentStep
      BY <2>1 DEF PaymentStep, Atomic!Spend
    <2>2. CASE DepositStep \/ UNCHANGED walletVars
      <3>1. [DepNext]_depVars /\ DepInv
        BY <2>2 DEF DepositStep, walletVars, depVars, WalletInv
      <3> QED
        BY <3>1, StepRefines
    <2> QED
      BY <2>1, <2>2 DEF WalletNext
  <1> QED
    BY <1>1, <1>2, WalletInvariant, PTL
    DEF WalletSpec, ImplementsSharedCredit, Atomic!SharedSpec
=============================================================================
