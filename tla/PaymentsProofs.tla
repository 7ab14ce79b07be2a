--------------------------- MODULE PaymentsProofs ---------------------------
(***************************************************************************)
(* PayCore is an inductive invariant of Payments, for any number of users,  *)
(* requests and references, any prices and any number of faults.           *)
(*                                                                         *)
(* The invariant is proved in two halves: what is known of the rows and    *)
(* the wallets (RowFacts) and what is known of the requests that work on   *)
(* them (RequestFacts).  Most actions change one half and frame the other. *)
(***************************************************************************)
EXTENDS Payments, LedgerProofs

RowFacts ==
    /\ RowsSound
    /\ NonNegativeBalance
    /\ CompletedWasAccepted
    /\ NoticeOnlyAfterCompletion
    /\ RowsAdd

RequestFacts ==
    /\ RequestRow
    /\ RequestStage
    /\ BillOwnsRow
    /\ TransferDebitedOnce

LEMMA PayHalves ==
  PayCore <=> PayTypeOK /\ RowFacts /\ RequestFacts /\ BillSentOnce /\ DeliveredIsCharged
  BY DEF PayCore, RowFacts, RequestFacts

LEMMA PayInitCore == PayInit => PayCore
  <1> SUFFICES ASSUME PayInit PROVE PayCore
    OBVIOUS
  <1>1. PayTypeOK
    BY OpeningAssumption, PaymentsAssumption, FS_EmptySet
    DEF PayInit, LedgerInit, PayTypeOK, LedgerTypeOK
  <1>2. RowFacts
    BY OpeningAssumption
    DEF PayInit, LedgerInit, RowFacts, RowsSound, NonNegativeBalance,
        CompletedWasAccepted, NoticeOnlyAfterCompletion, RowsAdd
  <1>3. RequestFacts
    BY DEF PayInit, RequestFacts, RequestRow, RequestStage, BillOwnsRow,
           TransferDebitedOnce, HasRow, At, Idle
  <1>4. DeliveredIsCharged
    BY DEF PayInit, DeliveredIsCharged
  <1>5. BillSentOnce
    BY DEF PayInit, BillSentOnce, At, Idle
  <1> QED
    BY <1>1, <1>2, <1>3, <1>4, <1>5, PayHalves

-----------------------------------------------------------------------------
(* Frames *)

\* What is delivered only grows, and only for rows that exist.
Grows == accepted \subseteq accepted' /\ accepted' \subseteq DOMAIN txn

\* The only delivery a step of r can make.
Delivers(r) ==
    \/ UNCHANGED accepted
    \/ At(r, "pay") /\ Deliverable(r) /\ accepted' = accepted \cup {req[r].txn}

LEMMA DeliversGrows ==
  ASSUME PayCore, NEW r \in Req, Delivers(r)
  PROVE  Grows
  BY DEF PayCore, RowsSound, RequestRow, HasRow, At, Delivers, Grows

\* A step that leaves rows and wallets alone keeps what is known of them.
LEMMA RowFrame ==
  ASSUME RowFacts, UNCHANGED <<balance, txn, noticed>>, Grows
  PROVE  RowFacts'
  BY DEF RowFacts, RowsSound, NonNegativeBalance, CompletedWasAccepted, NoticeOnlyAfterCompletion, RowsAdd, Grows

\* A request that ends takes nothing from what is known of the others.
LEMMA EndFrame ==
  ASSUME PayTypeOK, RequestFacts, NEW r \in Req, End(r), UNCHANGED txn,
         accepted \subseteq accepted'
  PROVE  /\ req' \in [Req -> Job \cup {Idle}]
         /\ RequestFacts'
  <1> USE DEF PayTypeOK, End, HasRow, At, Idle
  <1>1. req' \in [Req -> Job \cup {Idle}]
    OBVIOUS
  <1>2. RequestRow' /\ RequestStage'
    BY DEF RequestFacts, RequestRow, RequestStage
  <1>3. BillOwnsRow' /\ TransferDebitedOnce'
    BY DEF RequestFacts, BillOwnsRow, TransferDebitedOnce
  <1> QED
    BY <1>1, <1>2, <1>3 DEF RequestFacts

\* What was delivered stays charged through a step of a request that is not
\* about to debit, or of one that suffers a fault.
LEMMA DeliveredFrame ==
  ASSUME PayTypeOK, DeliveredIsCharged, NEW r \in Req,
         UNCHANGED txn, faults' \in Nat, faults' >= faults,
         \A q \in Req \ {r} : req'[q] = req[q],
         (UNCHANGED accepted /\ ~At(r, "commit")) \/ faults' > 0
  PROVE  DeliveredIsCharged'
  BY DEF PayTypeOK, DeliveredIsCharged, At

\* A delivery to one request is not one to a purchase of another.
LEMMA SentFrame ==
  ASSUME PayCore, NEW r \in Req,
         \A q \in Req \ {r} : req'[q] = req[q],
         req'[r].pc # "pay" \/ req'[r].op # "bill",
         Delivers(r)
  PROVE  BillSentOnce'
  <1> SUFFICES ASSUME NEW q \in Req, req'[q].pc = "pay", req'[q].op = "bill"
               PROVE  req'[q].txn \notin accepted'
    BY DEF BillSentOnce, At
  <1>1. q # r /\ req'[q] = req[q] /\ req[q].txn \notin accepted
    BY DEF PayCore, BillSentOnce, At
  <1>2. ASSUME At(r, "pay"), Deliverable(r) PROVE req[r].txn # req[q].txn
    <2>1. HasRow(q) /\ HasRow(r) /\ txn[req[q].txn].type = "BILL"
      BY <1>1, <1>2 DEF PayCore, RequestRow, HasRow, At
    <2> QED
      BY <1>1, <1>2, <2>1 DEF PayCore, BillOwnsRow, Deliverable
  <1> QED
    BY <1>1, <1>2 DEF Delivers

-----------------------------------------------------------------------------
(* Requests that arrive *)

LEMMA BillReadInv ==
  ASSUME PayCore, NEW r \in Req, NEW u \in User, NEW price \in BillAmounts,
         BillRead(r, u, price)
  PROVE  PayCore'
  <1> USE PayHalves DEF BillRead, HasRow, At
  <1>1. price \in Nat /\ NoTxn \notin TxnId
    BY PaymentsAssumption
  <1>2. PayTypeOK'
    BY <1>1 DEF PayTypeOK, LedgerTypeOK, Job, PC, Op
  <1>3. RequestRow' /\ BillOwnsRow' /\ TransferDebitedOnce'
    BY DEF PayTypeOK, RequestFacts, RequestRow, BillOwnsRow, TransferDebitedOnce
  <1>4. RequestStage'
    BY <1>1, OpeningAssumption
    DEF PayTypeOK, LedgerTypeOK, RequestFacts, RequestStage
  <1>5. RowFacts'
    BY RowFrame DEF RowFacts, RowsSound, Grows
  <1>6. DeliveredIsCharged'
    BY DeliveredFrame DEF PayTypeOK
  <1>sent. BillSentOnce'
    BY SentFrame DEF Delivers
  <1> QED
    BY <1>2, <1>3, <1>4, <1>5, <1>6, <1>sent DEF PayCore, RowFacts, RequestFacts

LEMMA InitiateReadInv ==
  ASSUME PayCore, NEW r \in Req, NEW u \in User, NEW amount \in TransferAmounts,
         InitiateRead(r, u, amount)
  PROVE  PayCore'
  <1> USE PayHalves DEF InitiateRead, HasRow, At
  <1>1. amount + TransferFee(amount) \in Nat /\ NoTxn \notin TxnId
    BY PaymentsAssumption DEF TransferFee
  <1>2. PayTypeOK'
    BY <1>1 DEF PayTypeOK, LedgerTypeOK, Job, PC, Op
  <1>3. RequestRow' /\ BillOwnsRow' /\ TransferDebitedOnce'
    BY DEF PayTypeOK, RequestFacts, RequestRow, BillOwnsRow, TransferDebitedOnce
  <1>4. RequestStage'
    BY <1>1, OpeningAssumption
    DEF PayTypeOK, LedgerTypeOK, RequestFacts, RequestStage
  <1>5. RowFacts'
    BY RowFrame DEF RowFacts, RowsSound, Grows
  <1>6. DeliveredIsCharged'
    BY DeliveredFrame DEF PayTypeOK
  <1>sent. BillSentOnce'
    BY SentFrame DEF Delivers
  <1> QED
    BY <1>2, <1>3, <1>4, <1>5, <1>6, <1>sent DEF PayCore, RowFacts, RequestFacts

LEMMA CompleteLookupInv ==
  ASSUME PayCore, NEW r \in Req, NEW u \in User, NEW t \in TxnId,
         CompleteLookup(r, u, t)
  PROVE  PayCore'
  <1> USE PayHalves DEF CompleteLookup, HasRow, At
  <1>1. PayTypeOK'
    BY DEF PayTypeOK, LedgerTypeOK, Job, PC, Op, Row
  <1>2. RequestRow' /\ RequestStage'
    BY DEF PayTypeOK, RequestFacts, RequestRow, RequestStage
  <1>3. BillOwnsRow' /\ TransferDebitedOnce'
    BY DEF PayTypeOK, RequestFacts, BillOwnsRow, TransferDebitedOnce
  <1>4. RowFacts'
    BY RowFrame DEF RowFacts, RowsSound, Grows
  <1>5. DeliveredIsCharged'
    BY DeliveredFrame DEF PayTypeOK
  <1>sent. BillSentOnce'
    BY SentFrame DEF Delivers
  <1> QED
    BY <1>1, <1>2, <1>3, <1>4, <1>5, <1>sent DEF PayCore, RowFacts, RequestFacts

-----------------------------------------------------------------------------
(* Requests that only move or end *)

\* A request that ends with rows, wallets and providers as they were.
LEMMA EndInv ==
  ASSUME PayCore, NEW r \in Req, End(r), UNCHANGED <<balance, txn, noticed>>, Delivers(r),
         \/ UNCHANGED <<faults, accepted>> /\ ~At(r, "commit")
         \/ Fault
  PROVE  PayCore'
  <1>1. /\ faults' \in 0..MaxFaults /\ faults' >= faults
        /\ (UNCHANGED accepted /\ ~At(r, "commit")) \/ faults' > 0
    BY PaymentsAssumption, PayHalves DEF Fault, PayTypeOK
  <1>2. req' \in [Req -> Job \cup {Idle}] /\ RequestFacts' /\ Grows
    BY EndFrame, DeliversGrows, PayHalves DEF Grows
  <1>3. PayTypeOK'
    BY <1>1, <1>2, PayHalves DEF PayTypeOK, LedgerTypeOK, Grows
  <1>4. RowFacts'
    BY <1>2, RowFrame, PayHalves
  <1>5. DeliveredIsCharged'
    BY <1>1, DeliveredFrame, PayHalves DEF End, PayTypeOK
  <1>sent. BillSentOnce'
    BY SentFrame, PayHalves DEF End, Idle, PayTypeOK
  <1> QED
    BY <1>2, <1>3, <1>4, <1>5, <1>sent DEF PayCore, RowFacts, RequestFacts

\* What Goto does, field by field.
LEMMA GotoEffect ==
  ASSUME PayTypeOK, NEW r \in Req, NEW pc \in PC, req[r] \in Job, Goto(r, pc)
  PROVE  /\ req' \in [Req -> Job \cup {Idle}]
         /\ \A q \in Req \ {r} : req'[q] = req[q]
         /\ req'[r].pc = pc
         /\ req'[r].op = req[r].op
         /\ req'[r].user = req[r].user
         /\ req'[r].txn = req[r].txn
         /\ req'[r].amount = req[r].amount
         /\ req'[r].seen = req[r].seen
  BY DEF PayTypeOK, Goto, Job

\* A request that is busy is a job.
LEMMA BusyIsJob ==
  ASSUME PayTypeOK, NEW r \in Req, ~At(r, "idle")
  PROVE  req[r] \in Job
  BY DEF PayTypeOK, At, Idle

\* The same of an error: a bill purchase goes on to mark its row FAILED.
LEMMA ThrowInv ==
  ASSUME PayCore, NEW r \in Req, Throw(r), UNCHANGED <<balance, txn, noticed>>, Delivers(r),
         At(r, "pay") \/ At(r, "commit"),
         \/ UNCHANGED <<faults, accepted>> /\ ~At(r, "commit")
         \/ Fault
  PROVE  PayCore'
  <1>1. CASE req[r].op # "bill"
    BY <1>1, EndInv DEF Throw, At
  <1>2. CASE req[r].op = "bill"
    <2>1. /\ faults' \in 0..MaxFaults /\ faults' >= faults
          /\ (UNCHANGED accepted /\ ~At(r, "commit")) \/ faults' > 0
      BY PaymentsAssumption, PayHalves DEF Fault, PayTypeOK
    <2>2. req[r] \in Job /\ Grows
      BY BusyIsJob, DeliversGrows, PayHalves DEF At
    <2>3. Goto(r, "fail") /\ "fail" \in PC
      BY <1>2 DEF Throw, PC
    <2> USE <1>2, <2>2, <2>3, GotoEffect, PayHalves DEF HasRow, At
    <2>4. PayTypeOK'
      BY <2>1 DEF PayTypeOK, LedgerTypeOK, Grows
    <2>5. RequestRow' /\ RequestStage'
      BY DEF RequestFacts, RequestRow, RequestStage, Grows
    <2>6. BillOwnsRow' /\ TransferDebitedOnce'
      BY DEF RequestFacts, BillOwnsRow, TransferDebitedOnce
    <2>7. RowFacts'
      BY RowFrame
    <2>8. DeliveredIsCharged'
      BY <2>1, DeliveredFrame DEF PayTypeOK
    <2>sent. BillSentOnce'
      BY SentFrame DEF Delivers
    <2> QED
      BY <2>4, <2>5, <2>6, <2>7, <2>8, <2>sent DEF PayCore, RowFacts, RequestFacts
  <1> QED
    BY <1>1, <1>2

LEMMA ResolveAccountInv ==
  ASSUME PayCore, NEW r \in Req, ResolveAccount(r)
  PROVE  PayCore'
  <1>1. CASE End(r)
    BY <1>1, EndInv DEF Delivers, ResolveAccount, At
  <1>2. CASE Goto(r, "create")
    <2>1. req[r] \in Job /\ "create" \in PC
      BY BusyIsJob, PayHalves DEF ResolveAccount, At, PC
    <2> USE <1>2, <2>1, GotoEffect, PayHalves DEF ResolveAccount, HasRow, At
    <2>2. PayTypeOK'
      BY DEF PayTypeOK, LedgerTypeOK
    <2>3. RequestRow' /\ RequestStage'
      BY DEF RequestFacts, RequestRow, RequestStage
    <2>4. BillOwnsRow' /\ TransferDebitedOnce'
      BY DEF RequestFacts, BillOwnsRow, TransferDebitedOnce
    <2>5. RowFacts'
      BY RowFrame DEF RowFacts, RowsSound, Grows
    <2>6. DeliveredIsCharged'
      BY DeliveredFrame DEF PayTypeOK
    <2>sent. BillSentOnce'
      BY SentFrame DEF Delivers
    <2> QED
      BY <2>2, <2>3, <2>4, <2>5, <2>6, <2>sent DEF PayCore, RowFacts, RequestFacts
  <1> QED
    BY <1>1, <1>2 DEF ResolveAccount

LEMMA CompleteReadInv ==
  ASSUME PayCore, NEW r \in Req, CompleteRead(r)
  PROVE  PayCore'
  <1>1. req[r] \in Job
    BY BusyIsJob, PayHalves DEF CompleteRead, At
  <1>2. balance[req[r].user] \in Int /\ req[r].amount \in Nat
    BY <1>1, PayHalves DEF PayTypeOK, LedgerTypeOK, Job
  <1>3. CASE balance[req[r].user] < req[r].amount
    <2>1. End(r)
      BY <1>2, <1>3 DEF CompleteRead
    <2> QED
      BY <2>1, EndInv DEF Delivers, CompleteRead, At
  <1>4. CASE balance[req[r].user] >= req[r].amount
    <2>1. /\ req' \in [Req -> Job \cup {Idle}]
          /\ \A q \in Req \ {r} : req'[q] = req[q]
          /\ req'[r].pc = "pay"
          /\ req'[r].op = req[r].op
          /\ req'[r].user = req[r].user
          /\ req'[r].txn = req[r].txn
          /\ req'[r].amount = req[r].amount
          /\ req'[r].seen = balance[req[r].user]
      BY <1>1, <1>2, <1>4, PayHalves DEF CompleteRead, PayTypeOK, Job, PC
    <2> USE <1>1, <1>2, <1>4, <2>1, PayHalves DEF CompleteRead, HasRow, At
    <2>2. PayTypeOK'
      BY DEF PayTypeOK, LedgerTypeOK
    <2>3. RequestRow'
      BY DEF RequestFacts, RequestRow
    <2>4. RequestStage'
      BY OpeningAssumption
      DEF Job, RequestFacts, RequestStage
    <2>5. BillOwnsRow' /\ TransferDebitedOnce'
      BY DEF RequestFacts, RequestStage, BillOwnsRow, TransferDebitedOnce
    <2>6. RowFacts'
      BY RowFrame DEF RowFacts, RowsSound, Grows
    <2>7. DeliveredIsCharged'
      BY DeliveredFrame DEF PayTypeOK
    <2>sent. BillSentOnce'
      BY DEF BillSentOnce, RequestFacts, RequestStage
    <2> QED
      BY <2>2, <2>3, <2>4, <2>5, <2>6, <2>7, <2>sent DEF PayCore, RowFacts, RequestFacts
  <1> QED
    BY <1>2, <1>3, <1>4

-----------------------------------------------------------------------------
(* Providers *)

LEMMA ProviderAcceptsInv ==
  ASSUME PayCore, NEW r \in Req, ProviderAccepts(r)
  PROVE  PayCore'
  <1>1. req[r] \in Job /\ Goto(r, "commit") /\ "commit" \in PC
    BY BusyIsJob, PayHalves DEF ProviderAccepts, At, PC
  <1>2. req[r].txn \in DOMAIN txn /\ txn[req[r].txn] \in Row
    BY PayHalves DEF ProviderAccepts, RequestFacts, RequestRow, HasRow, At, PayTypeOK, LedgerTypeOK
  <1> USE <1>1, <1>2, GotoEffect, PayHalves DEF ProviderAccepts, HasRow, At
  <1>3. PayTypeOK'
    BY DEF PayTypeOK, LedgerTypeOK
  <1>4. RequestRow' /\ RequestStage'
    BY DEF RequestFacts, RequestRow, RequestStage, Deliverable
  <1>5. BillOwnsRow'
    BY DEF RequestFacts, BillOwnsRow
  \* a transfer in "pay" that is deliverable is in nobody's "commit" yet
  <1>6. TransferDebitedOnce'
    BY DEF RequestFacts, RequestRow, RequestStage, RowFacts, RowsSound, Row, RowStatus,
           DebitType, CompletedWasAccepted, TransferDebitedOnce, Deliverable
  <1>7. RowFacts'
    BY RowFrame DEF RowFacts, RowsSound, Grows
  <1>8. DeliveredIsCharged'
    BY DEF DeliveredIsCharged
  <1>sent. BillSentOnce'
    BY SentFrame DEF Delivers
  <1> QED
    BY <1>3, <1>4, <1>5, <1>6, <1>7, <1>8, <1>sent DEF PayCore, RowFacts, RequestFacts

LEMMA ProviderRefusesInv ==
  ASSUME PayCore, NEW r \in Req, ProviderRefuses(r)
  PROVE  PayCore'
  BY ThrowInv DEF Delivers, ProviderRefuses, At

LEMMA AnswerLostInv ==
  ASSUME PayCore, NEW r \in Req, AnswerLost(r)
  PROVE  PayCore'
  BY ThrowInv DEF AnswerLost, Delivers

LEMMA CommitAbortsInv ==
  ASSUME PayCore, NEW r \in Req, CommitAborts(r)
  PROVE  PayCore'
  BY ThrowInv DEF Delivers, CommitAborts

LEMMA CreateRefusedInv ==
  ASSUME PayCore, NEW r \in Req, CreateRefused(r)
  PROVE  PayCore'
  BY EndInv DEF Delivers, CreateRefused, At

LEMMA MarkFailedFailsInv ==
  ASSUME PayCore, NEW r \in Req, MarkFailedFails(r)
  PROVE  PayCore'
  BY EndInv DEF Delivers, MarkFailedFails, At

LEMMA CrashInv ==
  ASSUME PayCore, NEW r \in Req, Crash(r)
  PROVE  PayCore'
  BY EndInv DEF Delivers, Crash, At

-----------------------------------------------------------------------------
(* Rows and wallets *)

LEMMA CreateRowInv ==
  ASSUME PayCore, NEW r \in Req, NEW t \in TxnId, CreateRow(r, t)
  PROVE  PayCore'
  <1> USE PayHalves DEF CreateRow
  <1>1. req[r] \in Job /\ req[r].op \in {"bill", "initiate"}
    BY BusyIsJob DEF At, RequestFacts, RequestStage, Job, Op
  <1>2. req[r].seen >= req[r].amount
    BY DEF At, RequestFacts, RequestStage
  \* the collection, row by row
  <1>3. /\ DOMAIN txn' = DOMAIN txn \cup {t}
        /\ \A x \in DOMAIN txn : txn'[x] = txn[x] /\ x # t
        /\ txn'[t] \in Row
        /\ txn'[t].status = "PENDING"
        /\ txn'[t].type = IF req[r].op = "bill" THEN "BILL" ELSE "TRANSFER"
        /\ txn'[t].user = req[r].user
        /\ txn'[t].amount = req[r].amount
        /\ txn'[t].before = req[r].seen
        /\ txn'[t].after = req[r].seen
    BY <1>1, <1>2 DEF WithRow, Insert, Row, RowStatus, DebitType, Job
  \* the request, field by field
  <1>4. /\ req' \in [Req -> Job \cup {Idle}]
        /\ \A q \in Req \ {r} : req'[q] = req[q]
        /\ req[r].op # "bill" => req'[r] = Idle
        /\ req[r].op = "bill" =>
             /\ req'[r].pc = "pay"
             /\ req'[r].op = "bill"
             /\ req'[r].user = req[r].user
             /\ req'[r].txn = t
             /\ req'[r].amount = req[r].amount
             /\ req'[r].seen = req[r].seen
    BY SMTT(20), <1>1 DEF PayTypeOK, Job, PC, End
  <1>5. PayTypeOK'
    <2>1. txn' = [x \in DOMAIN txn' |-> txn'[x]]
      BY <1>3 DEF WithRow, Insert
    <2>2. \A x \in DOMAIN txn' : txn'[x] \in Row
      BY SMTT(20), <1>3 DEF PayTypeOK, LedgerTypeOK
    <2>3. IsFiniteSet(DOMAIN txn')
      BY SMTT(20), <1>3, FS_AddElement DEF PayTypeOK, LedgerTypeOK
    <2> QED
      BY <1>3, <1>4, <2>1, <2>2, <2>3 DEF PayTypeOK, LedgerTypeOK
  <1>6. RequestRow'
    BY SMTT(20), <1>3, <1>4 DEF RequestFacts, RequestRow, HasRow, Idle
  <1>7. RequestStage'
    BY SMTT(20), <1>1, <1>2, <1>3, <1>4 DEF RequestFacts, RequestRow, RequestStage, HasRow, Idle
  <1>8. BillOwnsRow'
    <2>1. \A q \in Req : HasRow(q) => req[q].txn \in DOMAIN txn /\ req[q].txn # t
      BY SMTT(20), <1>3 DEF RequestFacts, RequestRow
    <2> QED
      BY <1>3, <1>4, <2>1 DEF RequestFacts, BillOwnsRow, HasRow, Idle
  <1>8a. TransferDebitedOnce'
    BY SMTT(20), <1>3, <1>4 DEF RequestFacts, RequestRow, TransferDebitedOnce, HasRow, At, Idle
  <1>9. RowFacts'
    <2>1. RowsSound'
      BY SMTT(20), <1>3 DEF RowFacts, RowsSound, DebitType
    <2>2. CompletedWasAccepted' /\ NoticeOnlyAfterCompletion'
      BY <1>3 DEF RowFacts, CompletedWasAccepted, NoticeOnlyAfterCompletion
    <2>3. RowsAdd'
      BY <1>3 DEF RowFacts, RowsAdd
    <2>4. NonNegativeBalance'
      BY DEF RowFacts, NonNegativeBalance
    <2> QED
      BY <2>1, <2>2, <2>3, <2>4 DEF RowFacts
  <1>10. DeliveredIsCharged'
    BY <1>3, <1>4 DEF DeliveredIsCharged, RowFacts, RowsSound, At
  <1>sent. BillSentOnce'
    BY <1>3, <1>4 DEF BillSentOnce, RowFacts, RowsSound, At, Idle
  <1> QED
    BY <1>5, <1>6, <1>7, <1>8, <1>8a, <1>9, <1>10, <1>sent DEF PayCore, RowFacts, RequestFacts

LEMMA PaidRowFields ==
  ASSUME NEW row \in Row, NEW job \in Job
  PROVE  LET paid == PaidRow(row, job) IN
         /\ paid \in Row
         /\ paid.status = "COMPLETED" /\ paid.type = row.type
         /\ paid.user = row.user /\ paid.amount = row.amount
         /\ paid.before = IF job.op = "complete" THEN job.seen ELSE row.before
         /\ paid.after = Rest(job)
  <1> DEFINE before == IF job.op = "complete" THEN job.seen ELSE row.before
  <1>1. before \in Int /\ Rest(job) \in Int
    BY DEF Row, Job, Rest
  <1>2. PaidRow(row, job) = [row EXCEPT !.status = "COMPLETED", !.before = before, !.after = Rest(job)]
    BY DEF PaidRow
  <1> HIDE DEF before
  <1>3. /\ PaidRow(row, job) \in Row
        /\ PaidRow(row, job).status = "COMPLETED" /\ PaidRow(row, job).type = row.type
        /\ PaidRow(row, job).user = row.user /\ PaidRow(row, job).amount = row.amount
        /\ PaidRow(row, job).before = before
        /\ PaidRow(row, job).after = Rest(job)
    BY <1>1, <1>2 DEF Row, RowStatus
  <1> QED
    BY <1>3 DEF before

LEMMA CommitInv ==
  ASSUME PayCore, NEW r \in Req, Commit(r)
  PROVE  PayCore'
  <1> DEFINE t == req[r].txn
             rest == Rest(req[r])
  <1> USE PayHalves
  <1>1. /\ req[r] \in Job /\ At(r, "commit") /\ Goto(r, "notify") /\ "notify" \in PC
        /\ UNCHANGED <<accepted, noticed, faults>>
    BY BusyIsJob DEF Commit, At, PC
  <1>2. t \in DOMAIN txn /\ txn[t] \in Row /\ txn[t].user = req[r].user /\ txn[t].amount = req[r].amount
    BY <1>1 DEF RequestFacts, RequestRow, HasRow, At, PayTypeOK, LedgerTypeOK
  <1>3. /\ req[r].seen >= req[r].amount
        /\ t \in accepted
        /\ req[r].op = "bill" => txn[t].before = req[r].seen
        /\ req[r].op \in {"bill", "complete"}
    BY <1>1 DEF RequestFacts, RequestRow, RequestStage, BillOwnsRow, HasRow, At
  <1>4. /\ rest \in Nat
        /\ req[r].user \in User /\ req[r].amount \in Nat /\ req[r].seen \in Int
    BY <1>1, <1>3, OpeningAssumption DEF Job, Rest
  <1>5. /\ balance' \in [User -> Int]
        /\ balance'[req[r].user] = rest
        /\ \A u \in User \ {req[r].user} : balance'[u] = balance[u]
    BY <1>4, OpeningAssumption DEF Commit, PayTypeOK, LedgerTypeOK
  <1>6. LET row == PaidRow(txn[t], req[r]) IN
        /\ row \in Row
        /\ row.status = "COMPLETED" /\ row.type = txn[t].type
        /\ row.user = txn[t].user /\ row.amount = txn[t].amount
        /\ row.before = req[r].seen /\ row.after = rest
    BY <1>1, <1>2, <1>3, PaidRowFields
  <1>7. /\ DOMAIN txn' = DOMAIN txn
        /\ \A x \in DOMAIN txn \ {t} : txn'[x] = txn[x]
        /\ txn' \in [DOMAIN txn -> Row]
        /\ txn'[t].status = "COMPLETED"
        /\ txn'[t].type = txn[t].type
        /\ txn'[t].user = txn[t].user
        /\ txn'[t].amount = txn[t].amount
        /\ txn'[t].before = req[r].seen
        /\ txn'[t].after = rest
    BY <1>2, <1>6 DEF Commit, PayTypeOK, LedgerTypeOK
  <1>8. /\ req' \in [Req -> Job \cup {Idle}]
        /\ \A q \in Req \ {r} : req'[q] = req[q]
        /\ req'[r].pc = "notify" /\ req'[r].op = req[r].op
        /\ req'[r].user = req[r].user /\ req'[r].txn = t
        /\ req'[r].amount = req[r].amount /\ req'[r].seen = req[r].seen
    BY <1>1, GotoEffect
  <1>9. PayTypeOK'
    BY <1>1, <1>5, <1>7, <1>8 DEF PayTypeOK, LedgerTypeOK
  <1>10. RequestRow'
    BY <1>1, <1>2, <1>7, <1>8 DEF RequestFacts, RequestRow, HasRow, At
  <1>11. RequestStage'
    BY <1>1, <1>2, <1>3, <1>7, <1>8 DEF RequestFacts, RequestRow, RequestStage, HasRow, At
  <1>12. BillOwnsRow'
    \* no other purchase works on the row, so that theirs are as they were
    <2>1. \A q \in Req \ {r} :
            HasRow(q) /\ req[q].op = "bill" /\ req[q].pc \in {"pay", "commit", "fail"}
              => req[q].txn # t
      BY <1>1 DEF RequestFacts, RequestRow, RequestStage, BillOwnsRow, HasRow, At
    <2> QED
      BY <1>1, <1>7, <1>8, <2>1 DEF RequestFacts, RequestRow, BillOwnsRow, HasRow, At
  <1>13. TransferDebitedOnce'
    BY <1>1, <1>7, <1>8
    DEF RequestFacts, RequestRow, RequestStage, BillOwnsRow, TransferDebitedOnce, HasRow, At
  <1>14. RowsSound' /\ CompletedWasAccepted' /\ NoticeOnlyAfterCompletion'
    BY <1>1, <1>3, <1>7 DEF RowFacts, RowsSound, CompletedWasAccepted, NoticeOnlyAfterCompletion
  <1>15. NonNegativeBalance'
    BY <1>4, <1>5, OpeningAssumption DEF RowFacts, NonNegativeBalance
  <1>16. RowsAdd'
    <2>1. txn[t].type \in DebitType
      BY <1>1, <1>2
      DEF RequestFacts, RequestRow, RequestStage, HasRow, At, DebitType
    <2> QED
      BY <1>2, <1>7, <2>1 DEF RowFacts, RowsAdd, Rest
  <1>17. DeliveredIsCharged'
    BY <1>1, <1>7, <1>8 DEF DeliveredIsCharged, RowFacts, RowsSound, At
  <1>sent. BillSentOnce'
    BY <1>1, <1>8, SentFrame DEF Delivers
  <1> QED
    BY <1>9, <1>10, <1>11, <1>12, <1>13, <1>14, <1>15, <1>16, <1>17, <1>sent DEF PayCore

LEMMA MarkFailedInv ==
  ASSUME PayCore, NEW r \in Req, MarkFailed(r)
  PROVE  PayCore'
  <1> DEFINE t == req[r].txn
  <1> USE PayHalves DEF MarkFailed
  <1>1. /\ t \in DOMAIN txn /\ txn[t] \in Row
        /\ req[r].op = "bill" /\ txn[t].type = "BILL" /\ txn[t].status = "PENDING"
    BY DEF RequestFacts, RequestRow, RequestStage, BillOwnsRow, HasRow, At, PayTypeOK, LedgerTypeOK
  <1>2. /\ DOMAIN txn' = DOMAIN txn
        /\ \A x \in DOMAIN txn \ {t} : txn'[x] = txn[x]
        /\ txn' \in [DOMAIN txn -> Row]
        /\ txn'[t].status = "FAILED"
        /\ txn'[t].type = txn[t].type
        /\ txn'[t].user = txn[t].user
        /\ txn'[t].amount = txn[t].amount
        /\ txn'[t].before = txn[t].before
        /\ txn'[t].after = txn[t].after
    BY <1>1 DEF PayTypeOK, LedgerTypeOK, Row, RowStatus
  <1>3. /\ req' \in [Req -> Job \cup {Idle}]
        /\ \A q \in Req \ {r} : req'[q] = req[q]
        /\ req'[r].pc = "idle"
    BY DEF End, PayTypeOK, Idle
  <1>4. PayTypeOK'
    BY <1>2, <1>3 DEF PayTypeOK, LedgerTypeOK
  <1>5. RequestRow' /\ RequestStage'
    BY <1>1, <1>2, <1>3 DEF RequestFacts, RequestRow, RequestStage, HasRow
  <1>6. BillOwnsRow' /\ TransferDebitedOnce'
    BY <1>1, <1>2, <1>3
    DEF RequestFacts, RequestRow, RequestStage, BillOwnsRow, TransferDebitedOnce, HasRow, At
  <1>7. RowFacts'
    BY <1>1, <1>2
    DEF RowFacts, RowsSound, NonNegativeBalance, CompletedWasAccepted, NoticeOnlyAfterCompletion, RowsAdd
  <1>8. DeliveredIsCharged'
    BY <1>1, <1>2, <1>3 DEF DeliveredIsCharged, RowFacts, RowsSound, RequestFacts, BillOwnsRow, HasRow, At
  <1>sent. BillSentOnce'
    BY <1>3, SentFrame DEF Delivers
  <1> QED
    BY <1>4, <1>5, <1>6, <1>7, <1>8, <1>sent DEF PayCore, RowFacts, RequestFacts

LEMMA NotifyInv ==
  ASSUME PayCore, NEW r \in Req, Notify(r)
  PROVE  PayCore'
  <1> USE PayHalves DEF Notify
  <1>1. req[r].txn \in DOMAIN txn /\ txn[req[r].txn].status = "COMPLETED"
    BY DEF RequestFacts, RequestRow, RequestStage, HasRow, At
  <1>2. req' \in [Req -> Job \cup {Idle}] /\ RequestFacts'
    BY EndFrame
  <1>3. PayTypeOK'
    BY <1>1, <1>2 DEF PayTypeOK, LedgerTypeOK
  <1>4. RowFacts'
    BY <1>1
    DEF RowFacts, RowsSound, NonNegativeBalance, CompletedWasAccepted, NoticeOnlyAfterCompletion, RowsAdd
  <1>5. DeliveredIsCharged'
    BY DeliveredFrame DEF End, At, PayTypeOK
  <1>sent. BillSentOnce'
    BY SentFrame DEF Delivers, End, Idle, PayTypeOK
  <1> QED
    BY <1>2, <1>3, <1>4, <1>5, <1>sent DEF PayCore, RowFacts, RequestFacts

-----------------------------------------------------------------------------
LEMMA PayNextCore == PayCore /\ [PayNext]_payVars => PayCore'
  <1> SUFFICES ASSUME PayCore, [PayNext]_payVars PROVE PayCore'
    OBVIOUS
  <1>1. CASE UNCHANGED payVars
    BY <1>1
    DEF payVars, PayCore, PayTypeOK, LedgerTypeOK, RequestRow, RequestStage, BillOwnsRow,
        TransferDebitedOnce, RowsSound, NonNegativeBalance, CompletedWasAccepted, NoticeOnlyAfterCompletion, RowsAdd, DeliveredIsCharged,
        BillSentOnce, HasRow, At
  <1>2. ASSUME NEW r \in Req, Arrive(r) PROVE PayCore'
    BY <1>2, BillReadInv, InitiateReadInv, CompleteLookupInv DEF Arrive
  <1>3. ASSUME NEW r \in Req, Advance(r) PROVE PayCore'
    BY <1>3, ResolveAccountInv, CreateRowInv, CreateRefusedInv, CompleteReadInv,
       ProviderAcceptsInv, ProviderRefusesInv, CommitInv, MarkFailedInv, NotifyInv
    DEF Advance
  <1>4. ASSUME NEW r \in Req, Fail(r) PROVE PayCore'
    BY <1>4, AnswerLostInv, CommitAbortsInv, MarkFailedFailsInv, CrashInv DEF Fail
  <1> QED
    BY <1>1, <1>2, <1>3, <1>4 DEF PayNext

-----------------------------------------------------------------------------
(* What a step may do to rows and wallets, with a provider that takes a     *)
(* reference once.                                                          *)

\* The row a debit or a catch writes is PENDING at that moment.
LEMMA WritesPending ==
  ASSUME PayCore, ProviderRejectsDuplicates, NEW r \in Req, Commit(r) \/ MarkFailed(r)
  PROVE  /\ req[r].txn \in DOMAIN txn
         /\ txn[req[r].txn].status = "PENDING"
         /\ txn[req[r].txn].user = req[r].user
  BY DEF PayCore, RequestRow, RequestStage, BillOwnsRow, TransferDebitedOnce, HasRow, At,
         Commit, MarkFailed

\* Every other step leaves balances and existing rows alone.
LEMMA OtherSteps ==
  ASSUME PayCore, [PayNext]_payVars, ~\E r \in Req : Commit(r) \/ MarkFailed(r)
  PROVE  /\ UNCHANGED balance
         /\ \A t \in DOMAIN txn : t \in DOMAIN txn' /\ txn'[t] = txn[t]
  BY DEF PayNext, payVars, Arrive, Advance, Fail, BillRead, InitiateRead, CompleteLookup,
         ResolveAccount, CreateRow, WithRow, Insert, CreateRefused, CompleteRead, ProviderAccepts,
         ProviderRefuses, Notify, AnswerLost, CommitAborts, MarkFailedFails, Crash

LEMMA StepSettles ==
  ASSUME PayCore, ProviderRejectsDuplicates, [PayNext]_payVars
  PROVE  /\ \A t \in DOMAIN txn : txn[t].status # "PENDING" => txn'[t] = txn[t]
         /\ \A u \in User : balance'[u] # balance[u] =>
              \E t \in DOMAIN txn : /\ txn[t].user = u
                                    /\ txn[t].status = "PENDING"
                                    /\ txn'[t].status = "COMPLETED"
                                    /\ txn'[t].after = balance'[u]
  <1>1. CASE ~\E r \in Req : Commit(r) \/ MarkFailed(r)
    BY <1>1, OtherSteps
  <1>2. ASSUME NEW r \in Req, MarkFailed(r)
        PROVE  /\ \A t \in DOMAIN txn : txn[t].status # "PENDING" => txn'[t] = txn[t]
               /\ UNCHANGED balance
    BY <1>2, WritesPending DEF MarkFailed, PayCore, PayTypeOK, LedgerTypeOK
  <1>3. ASSUME NEW r \in Req, Commit(r)
        PROVE  /\ \A t \in DOMAIN txn : txn[t].status # "PENDING" => txn'[t] = txn[t]
               /\ \A u \in User \ {req[r].user} : balance'[u] = balance[u]
               /\ req[r].txn \in DOMAIN txn
               /\ txn[req[r].txn].user = req[r].user
               /\ txn[req[r].txn].status = "PENDING"
               /\ txn'[req[r].txn].status = "COMPLETED"
               /\ req[r].user \in User => txn'[req[r].txn].after = balance'[req[r].user]
    <2>1. req[r] \in Job
      BY <1>3, BusyIsJob DEF Commit, At, PayCore
    <2>2. /\ req[r].txn \in DOMAIN txn /\ txn[req[r].txn] \in Row
          /\ txn[req[r].txn].user = req[r].user /\ txn[req[r].txn].status = "PENDING"
      BY <1>3, WritesPending DEF PayCore, PayTypeOK, LedgerTypeOK
    <2>3. /\ PaidRow(txn[req[r].txn], req[r]).status = "COMPLETED"
          /\ PaidRow(txn[req[r].txn], req[r]).after = Rest(req[r])
      BY <2>1, <2>2, PaidRowFields
    <2> QED
      BY <1>3, <2>2, <2>3 DEF Commit, PayCore, PayTypeOK, LedgerTypeOK
  <1> QED
    BY <1>1, <1>2, <1>3

-----------------------------------------------------------------------------
(* What a step does to the ledger *)

LEMMA BothLedgers ==
  ASSUME PayTypeOK, PayTypeOK'
  PROVE  IsLedger(txn) /\ IsLedger(txn')
  BY DEF PayTypeOK, LedgerTypeOK, IsLedger

LEMMA PendingRowsCountNot ==
  ASSUME PayCore, PayCore', NEW t, t \in DOMAIN txn => txn[t].status = "PENDING",
         DOMAIN txn' = DOMAIN txn \cup {t}, \A x \in DOMAIN txn \ {t} : txn'[x] = txn[x],
         txn'[t].status # "COMPLETED", NEW u \in User
  PROVE  LedgerBalance(u)' = LedgerBalance(u)
  <1>1. IsLedger(txn) /\ IsLedger(txn')
    BY BothLedgers DEF PayCore
  <1>2. Worth(txn', u) = Worth(txn, u) + Effect(txn'[t], u)
    BY <1>1, WorthOfOneMore
  <1>3. Effect(txn'[t], u) = 0 /\ Worth(txn, u) \in Int
    BY <1>1, WorthInt DEF Effect
  <1>4. LedgerBalance(u)' = Worth(txn', u) /\ LedgerBalance(u) = Worth(txn, u)
    BY LedgerIsWorth, NextLedgerIsWorth
  <1> QED
    BY <1>2, <1>3, <1>4

\* A debit takes the row's amount from the ledger of its user.
LEMMA DebitLedger ==
  ASSUME PayCore, PayCore', ProviderRejectsDuplicates, NEW r \in Req, Commit(r), NEW u \in User
  PROVE  LedgerBalance(u)' = LedgerBalance(u) - (IF u = req[r].user THEN req[r].amount ELSE 0)
  <1> DEFINE t == req[r].txn
  <1>1. IsLedger(txn) /\ IsLedger(txn')
    BY BothLedgers DEF PayCore
  <1>2. req[r] \in Job
    BY BusyIsJob DEF Commit, At, PayCore
  <1>3. /\ t \in DOMAIN txn /\ txn[t] \in Row /\ txn[t].status = "PENDING"
        /\ txn[t].user = req[r].user /\ txn[t].amount = req[r].amount
        /\ txn[t].type \in DebitType
    BY WritesPending
    DEF PayCore, PayTypeOK, LedgerTypeOK, RequestRow, RowsSound, HasRow, Commit, At
  <1>4. /\ PaidRow(txn[t], req[r]).status = "COMPLETED"
        /\ PaidRow(txn[t], req[r]).type = txn[t].type
        /\ PaidRow(txn[t], req[r]).user = txn[t].user
        /\ PaidRow(txn[t], req[r]).amount = txn[t].amount
    BY <1>2, <1>3, PaidRowFields
  <1>5. /\ DOMAIN txn' = DOMAIN txn \cup {t} /\ \A x \in DOMAIN txn \ {t} : txn'[x] = txn[x]
        /\ txn'[t] = PaidRow(txn[t], req[r])
    BY <1>3 DEF Commit, PayCore, PayTypeOK, LedgerTypeOK
  <1>6. Worth(txn', u) = Worth(txn, u) + Effect(txn'[t], u)
    BY <1>1, <1>3, <1>5, WorthOfOneMore
  <1>7. Effect(txn'[t], u) = 0 - (IF u = req[r].user THEN req[r].amount ELSE 0)
    BY <1>2, <1>3, <1>4, <1>5 DEF Effect, CreditType, DebitType, Job
  <1>8. Worth(txn, u) \in Int /\ req[r].amount \in Nat
    BY <1>1, <1>2, WorthInt DEF Job
  <1>9. LedgerBalance(u)' = Worth(txn', u) /\ LedgerBalance(u) = Worth(txn, u)
    BY LedgerIsWorth, NextLedgerIsWorth
  <1> QED
    BY <1>6, <1>7, <1>8, <1>9

\* Every other step leaves wallets and ledgers alone.
LEMMA OtherLedgers ==
  ASSUME PayCore, [PayNext]_payVars, ~\E r \in Req : Commit(r), NEW u \in User
  PROVE  UNCHANGED balance /\ LedgerBalance(u)' = LedgerBalance(u)
  <1>1. PayCore'
    BY PayNextCore
  <1>2. ASSUME NEW r \in Req, MarkFailed(r)
        PROVE  UNCHANGED balance /\ LedgerBalance(u)' = LedgerBalance(u)
    <2> DEFINE t == req[r].txn
    <2>1. t \in DOMAIN txn /\ txn[t].status = "PENDING" /\ txn[t] \in Row
      BY <1>2 DEF MarkFailed, PayCore, RequestRow, RequestStage, BillOwnsRow, HasRow, At,
                  PayTypeOK, LedgerTypeOK
    <2>2. [txn[t] EXCEPT !.status = "FAILED"].status = "FAILED"
      BY <2>1 DEF Row
    <2>3. /\ DOMAIN txn' = DOMAIN txn \cup {t} /\ \A x \in DOMAIN txn \ {t} : txn'[x] = txn[x]
          /\ txn'[t] = [txn[t] EXCEPT !.status = "FAILED"] /\ UNCHANGED balance
      BY <1>2, <2>1 DEF MarkFailed, PayCore, PayTypeOK, LedgerTypeOK
    <2> QED
      BY <1>1, <2>1, <2>2, <2>3, PendingRowsCountNot
  <1>3. ASSUME NEW r \in Req, NEW t \in TxnId, CreateRow(r, t)
        PROVE  UNCHANGED balance /\ LedgerBalance(u)' = LedgerBalance(u)
    <2>1. /\ t \notin DOMAIN txn /\ DOMAIN txn' = DOMAIN txn \cup {t}
          /\ \A x \in DOMAIN txn \ {t} : txn'[x] = txn[x]
          /\ txn'[t].status = "PENDING" /\ UNCHANGED balance
      BY <1>3 DEF CreateRow, WithRow, Insert
    <2> QED
      BY <1>1, <2>1, PendingRowsCountNot
  <1>4. CASE ~\E r \in Req : MarkFailed(r) \/ \E t \in TxnId : CreateRow(r, t)
    <2>1. UNCHANGED <<balance, txn>>
      BY <1>4
      DEF PayNext, payVars, Arrive, Advance, Fail, BillRead, InitiateRead, CompleteLookup,
          ResolveAccount, CreateRefused, CompleteRead, ProviderAccepts, ProviderRefuses,
          Notify, AnswerLost, CommitAborts, MarkFailedFails, Crash
    <2> QED
      BY <2>1, LedgerIsWorth, NextLedgerIsWorth
  <1> QED
    BY <1>2, <1>3, <1>4

LEMMA StepDrifts ==
  ASSUME PayCore, ProviderRejectsDuplicates, [PayNext]_payVars, NEW u \in User,
         balance'[u] - LedgerBalance(u)' # balance[u] - LedgerBalance(u)
  PROVE  \E r \in Req : At(r, "commit") /\ req[r].user = u /\ req[r].seen # balance[u]
  <1>1. PICK r \in Req : Commit(r)
    BY OtherLedgers
  <1>2. LedgerBalance(u)' = LedgerBalance(u) - (IF u = req[r].user THEN req[r].amount ELSE 0)
    BY <1>1, DebitLedger, PayNextCore
  <1>3. req[r] \in Job /\ At(r, "commit")
    BY <1>1, BusyIsJob DEF Commit, At, PayCore
  <1>4. LedgerBalance(u) \in Int
    BY LedgerIsWorth, WorthInt DEF PayCore, PayTypeOK, LedgerTypeOK, IsLedger
  <1>5. balance \in [User -> Int] /\ req[r].amount \in Int /\ req[r].seen \in Int
    BY <1>3 DEF PayCore, PayTypeOK, LedgerTypeOK, Job
  <1>6. balance'[u] = IF u = req[r].user THEN req[r].seen - req[r].amount ELSE balance[u]
    BY <1>1, <1>5 DEF Commit, Rest
  <1>7. PICK worth \in Int : worth = LedgerBalance(u)
    BY <1>4
  <1>8. req[r].user = u
    BY <1>2, <1>5, <1>6, <1>7
  <1>9. req[r].seen # balance[u]
    BY <1>2, <1>5, <1>6, <1>7, <1>8
  <1> QED
    BY <1>3, <1>8, <1>9

-----------------------------------------------------------------------------
(* The bounds of what a request has seen *)

\* A request either keeps what it has seen or has just read it.
LEMMA ReadsFresh ==
  ASSUME PayCore, [PayNext]_payVars, NEW q \in Req, req'[q].pc \notin {"idle", "read"}
  PROVE  /\ req'[q].user \in User /\ req'[q].seen \in Int
         /\ \/ /\ req[q].pc \notin {"idle", "read"}
               /\ req'[q].user = req[q].user /\ req'[q].seen = req[q].seen
            \/ UNCHANGED <<balance, txn>> /\ req'[q].seen = balance[req'[q].user]
  <1> DEFINE Goal == \/ /\ req[q].pc \notin {"idle", "read"}
                        /\ req'[q].user = req[q].user /\ req'[q].seen = req[q].seen
                     \/ UNCHANGED <<balance, txn>> /\ req'[q].seen = balance[req'[q].user]
  <1>0. PayTypeOK /\ req \in [Req -> Job \cup {Idle}]
    BY DEF PayCore, PayTypeOK
  <1>1. req'[q] \in Job
    <2>1. PayTypeOK'
      BY PayNextCore DEF PayCore
    <2> QED
      BY <2>1 DEF PayTypeOK, Idle
  <1>2. ASSUME NEW r \in Req, End(r) PROVE Goal
    BY <1>0, <1>2 DEF End, Idle
  <1>3. ASSUME NEW r \in Req, NEW pc \in PC, Goto(r, pc), ~At(r, "idle"), ~At(r, "read") PROVE Goal
    <2>1. req[r] \in Job
      BY <1>0, <1>3, BusyIsJob
    <2>2. /\ \A x \in Req \ {r} : req'[x] = req[x]
          /\ req'[r].user = req[r].user /\ req'[r].seen = req[r].seen
      BY <1>0, <1>3, <2>1, GotoEffect
    <2> QED
      BY <1>3, <2>2 DEF At
  <1>4. ASSUME NEW r \in Req, Throw(r), At(r, "pay") \/ At(r, "commit") PROVE Goal
    BY <1>2, <1>3, <1>4 DEF Throw, At, PC
  <1>5. ASSUME NEW r \in Req, Arrive(r) PROVE Goal
    BY <1>0, <1>5 DEF Arrive, BillRead, InitiateRead, CompleteLookup
  <1>6. ASSUME NEW r \in Req, CompleteRead(r) PROVE Goal
    <2>1. CASE End(r)
      BY <1>2, <2>1
    <2>2. CASE req' = [req EXCEPT ![r].pc = "pay", ![r].seen = balance[req[r].user]]
      <3>1. req[r] \in Job
        BY <1>0, <1>6, BusyIsJob DEF CompleteRead, At
      <3>2. /\ \A x \in Req \ {r} : req'[x] = req[x]
            /\ req'[r].user = req[r].user /\ req'[r].seen = balance[req[r].user]
        BY <1>0, <2>2, <3>1 DEF Job
      <3> QED
        BY <1>6, <3>2 DEF CompleteRead
    <2> QED
      BY <1>6, <2>1, <2>2 DEF CompleteRead
  <1>7. ASSUME NEW r \in Req, NEW t \in TxnId, CreateRow(r, t) PROVE Goal
    <2>1. CASE req[r].op # "bill"
      BY <1>2, <1>7, <2>1 DEF CreateRow
    <2>2. CASE req[r].op = "bill"
      <3>1. req[r] \in Job /\ At(r, "create")
        BY <1>0, <1>7, BusyIsJob DEF CreateRow, At
      <3>2. /\ \A x \in Req \ {r} : req'[x] = req[x]
            /\ req'[r].user = req[r].user /\ req'[r].seen = req[r].seen
        BY <1>0, <1>7, <2>2, <3>1 DEF CreateRow, Job
      <3> QED
        BY <3>1, <3>2 DEF At
    <2> QED
      BY <2>1, <2>2
  <1>8. ASSUME NEW r \in Req, Advance(r) PROVE Goal
    <2>1. CASE ResolveAccount(r) \/ ProviderAccepts(r) \/ Commit(r)
      BY <1>2, <1>3, <2>1 DEF ResolveAccount, ProviderAccepts, Commit, At, PC
    <2>2. CASE CreateRefused(r) \/ MarkFailed(r) \/ Notify(r)
      BY <1>2, <2>2 DEF CreateRefused, MarkFailed, Notify
    <2>3. CASE ProviderRefuses(r)
      BY <1>4, <2>3 DEF ProviderRefuses
    <2> QED
      BY <1>6, <1>7, <1>8, <2>1, <2>2, <2>3 DEF Advance
  <1>9. ASSUME NEW r \in Req, Fail(r) PROVE Goal
    BY <1>2, <1>4, <1>9 DEF Fail, AnswerLost, CommitAborts, MarkFailedFails, Crash
  <1>10. ASSUME UNCHANGED payVars PROVE Goal
    <2>1. req' = req
      BY <1>10 DEF payVars
    <2> QED
      BY <2>1
  <1>11. Goal
    BY <1>5, <1>8, <1>9, <1>10 DEF PayNext
  <1> QED
    BY <1>1, <1>11 DEF Job

LEMMA OpeningBounds ==
  ASSUME PayInv, [PayNext]_payVars
  PROVE  SpendingCreatesNothing' /\ SeenWithinOpening'
  <1>0. PayCore /\ PayTypeOK /\ PayCore'
    BY PayNextCore DEF PayInv, PayCore
  <1>1. SeenWithinOpening'
    <2> SUFFICES ASSUME NEW q \in Req, req'[q].pc \notin {"idle", "read"}
                 PROVE  req'[q].seen <= Opening[req'[q].user]
      BY DEF SeenWithinOpening
    <2> QED
      BY <1>0, ReadsFresh DEF PayInv, SeenWithinOpening, SpendingCreatesNothing
  <1>2. CASE \E r \in Req : Commit(r)
    <2>1. PICK r \in Req : Commit(r)
      BY <1>2
    <2>2. req[r] \in Job /\ At(r, "commit")
      BY <1>0, <2>1, BusyIsJob DEF Commit, At
    <2>3. balance \in [User -> Int] /\ req[r].amount \in Nat /\ req[r].seen \in Int /\ req[r].user \in User
      BY <1>0, <2>2 DEF PayTypeOK, LedgerTypeOK, Job
    <2>4. req[r].seen <= Opening[req[r].user]
      BY <2>2 DEF PayInv, SeenWithinOpening, At
    <2>5. \A u \in User :
            balance'[u] = IF u = req[r].user THEN req[r].seen - req[r].amount ELSE balance[u]
      BY <2>1, <2>3 DEF Commit, Rest
    <2> QED
      BY <1>1, <2>3, <2>4, <2>5, OpeningAssumption DEF PayInv, SpendingCreatesNothing
  <1>3. CASE ~\E r \in Req : Commit(r)
    <2>1. ASSUME NEW u \in User PROVE UNCHANGED balance
      BY <1>0, <1>3, OtherLedgers
    <2> QED
      BY <1>1, <2>1 DEF PayInv, SpendingCreatesNothing
  <1> QED
    BY <1>2, <1>3

\* While points are only spent, the ledger of a user only falls: what a request has
\* seen of the wallet covers it until the debit, and so does the debit.
LEMMA ChargeBounds ==
  ASSUME PayInv, ProviderRejectsDuplicates, [PayNext]_payVars
  PROVE  NeverOvercharged' /\ SeenCoversLedger'
  <1>0. PayCore /\ PayTypeOK /\ PayCore' /\ NeverOvercharged /\ SeenCoversLedger
    BY PayNextCore DEF PayInv, PayCore
  <1>1. \A u \in User : LedgerBalance(u) \in Int
    BY <1>0, LedgerIsWorth, WorthInt DEF PayTypeOK, LedgerTypeOK, IsLedger
  <1>2. \A u \in User : LedgerBalance(u)' \in Int /\ LedgerBalance(u)' <= LedgerBalance(u)
    <2> SUFFICES ASSUME NEW u \in User
                 PROVE  LedgerBalance(u)' \in Int /\ LedgerBalance(u)' <= LedgerBalance(u)
      OBVIOUS
    <2>1. ASSUME NEW r \in Req, Commit(r)
          PROVE  LedgerBalance(u)' \in Int /\ LedgerBalance(u)' <= LedgerBalance(u)
      <3>1. req[r].amount \in Nat
        BY <1>0, <2>1, BusyIsJob DEF Commit, At, Job
      <3>2. LedgerBalance(u)' = LedgerBalance(u) - (IF u = req[r].user THEN req[r].amount ELSE 0)
        BY <1>0, <2>1, DebitLedger
      <3>3. PICK n \in Nat : LedgerBalance(u)' = LedgerBalance(u) - n
        BY <3>1, <3>2
      <3>4. PICK worth \in Int : worth = LedgerBalance(u)
        BY <1>1
      <3> QED
        BY <3>3, <3>4
    <2>2. CASE ~\E r \in Req : Commit(r)
      <3>1. LedgerBalance(u)' = LedgerBalance(u)
        BY <1>0, <2>2, OtherLedgers
      <3>2. PICK worth \in Int : worth = LedgerBalance(u)
        BY <1>1
      <3> QED
        BY <3>1, <3>2
    <2> QED
      BY <2>1, <2>2
  <1>3. SeenCoversLedger'
    <2> SUFFICES ASSUME NEW q \in Req, req'[q].pc \notin {"idle", "read"},
                        NEW u, u = req'[q].user
                 PROVE  req'[q].seen >= LedgerBalance(u)'
      BY DEF SeenCoversLedger
    <2>1. u \in User /\ req'[q].seen \in Int
      BY <1>0, ReadsFresh
    <2>2. LedgerBalance(u) \in Int /\ LedgerBalance(u)' \in Int /\ LedgerBalance(u)' <= LedgerBalance(u)
      BY <1>1, <1>2, <2>1
    <2>3. req'[q].seen >= LedgerBalance(u)
      BY <1>0, <2>1, ReadsFresh DEF NeverOvercharged, SeenCoversLedger
    <2> QED
      BY <2>1, <2>2, <2>3
  <1>4. NeverOvercharged'
    <2> SUFFICES ASSUME NEW u \in User PROVE balance'[u] >= LedgerBalance(u)'
      BY DEF NeverOvercharged
    <2>0. balance[u] \in Int /\ balance[u] >= LedgerBalance(u)
      BY <1>0 DEF NeverOvercharged, PayTypeOK, LedgerTypeOK
    <2>1. ASSUME NEW r \in Req, Commit(r), u = req[r].user PROVE balance'[u] >= LedgerBalance(u)'
      <3>1. req[r] \in Job /\ At(r, "commit")
        BY <1>0, <2>1, BusyIsJob DEF Commit, At
      <3>2. balance'[u] = req[r].seen - req[r].amount
        BY <1>0, <2>1 DEF Commit, Rest, PayTypeOK, LedgerTypeOK
      <3>3. LedgerBalance(u)' = LedgerBalance(u) - req[r].amount
        BY <1>0, <2>1, DebitLedger
      <3>4. req[r].seen >= LedgerBalance(u)
        BY <1>0, <2>1, <3>1 DEF SeenCoversLedger, At
      <3>5. PICK seen \in Int, amount \in Nat : seen = req[r].seen /\ amount = req[r].amount
        BY <3>1 DEF Job
      <3>6. PICK worth \in Int : worth = LedgerBalance(u)
        BY <1>1
      <3> QED
        BY <3>2, <3>3, <3>4, <3>5, <3>6
    <2>2. CASE ~\E r \in Req : Commit(r) /\ u = req[r].user
      <3>1. balance'[u] = balance[u]
        <4>1. CASE \E r \in Req : Commit(r)
          BY <1>0, <2>2, <4>1 DEF Commit, PayTypeOK, LedgerTypeOK
        <4>2. CASE ~\E r \in Req : Commit(r)
          BY <1>0, <4>2, OtherLedgers
        <4> QED
          BY <4>1, <4>2
      <3>2. LedgerBalance(u) \in Int /\ LedgerBalance(u)' \in Int /\ LedgerBalance(u)' <= LedgerBalance(u)
        BY <1>1, <1>2
      <3> QED
        BY <2>0, <3>1, <3>2
    <2> QED
      BY <2>1, <2>2
  <1> QED
    BY <1>3, <1>4

LEMMA PayInitInv == PayInit => PayInv
  <1> SUFFICES ASSUME PayInit PROVE PayInv
    OBVIOUS
  <1>1. SpendingCreatesNothing /\ SeenWithinOpening
    BY OpeningAssumption
    DEF PayInit, LedgerInit, SpendingCreatesNothing, SeenWithinOpening, Idle
  <1>2. NeverOvercharged
    <2>1. \A types : \A u \in User : Settled(txn, u, types) = {}
      BY DEF PayInit, LedgerInit, Settled
    <2>2. \A u \in User : Worth(txn, u) = Opening[u]
      <3> TAKE u \in User
      <3>1. Worth(txn, u) = Opening[u] + 0 - 0
        BY <2>1, SumEmpty, Zenon DEF Worth
      <3> QED
        BY <3>1, OpeningAssumption
    <2> QED
      BY <2>2, LedgerIsWorth, OpeningAssumption DEF NeverOvercharged, PayInit, LedgerInit
  <1>3. SeenCoversLedger
    BY DEF PayInit, SeenCoversLedger, Idle
  <1> QED
    BY <1>1, <1>2, <1>3, PayInitCore DEF PayInv

LEMMA PayNextInv == PayInv /\ [PayNext]_payVars => PayInv'
  <1> SUFFICES ASSUME PayInv, [PayNext]_payVars PROVE PayInv'
    OBVIOUS
  <1>1. PayCore'
    BY PayNextCore DEF PayInv
  <1> QED
    BY <1>1, OpeningBounds, ChargeBounds DEF PayInv

\* The inductive invariant holds in every reachable state: what a handler of
\* PaymentsService knew before an await is what it relies on after it.
THEOREM PaymentsInvariant == PaySpec => []PayInv
  BY PayInitInv, PayNextInv, PTL DEF PaySpec

\* The stored documents and the requests keep their types.
THEOREM PaymentsTypeCorrect == PaySpec => []PayTypeOK
  <1>1. PayInv => PayTypeOK
    BY DEF PayInv, PayCore
  <1> QED
    BY <1>1, PaymentsInvariant, PTL

\* No interleaving of purchases and transfers overdraws a wallet, and none
\* leaves more in it than it opened with.
THEOREM WalletBounded == PaySpec => [](NonNegativeBalance /\ SpendingCreatesNothing)
  <1>1. PayInv => NonNegativeBalance /\ SpendingCreatesNothing
    BY DEF PayInv, PayCore
  <1> QED
    BY <1>1, PaymentsInvariant, PTL

\* Nobody is charged, or told of success, without a delivery.
THEOREM ChargedOnlyIfDelivered ==
    PaySpec => [](CompletedWasAccepted /\ NoticeOnlyAfterCompletion)
  <1>1. PayInv => CompletedWasAccepted /\ NoticeOnlyAfterCompletion
    BY DEF PayInv, PayCore
  <1> QED
    BY <1>1, PaymentsInvariant, PTL

\* As long as nothing fails, everything delivered is charged.
THEOREM DeliveredOnlyIfCharged == PaySpec => []DeliveredIsCharged
  <1>1. PayInv => DeliveredIsCharged
    BY DEF PayInv, PayCore
  <1> QED
    BY <1>1, PaymentsInvariant, PTL

\* The balances every row shows add up.
THEOREM LedgerRowsAdd == PaySpec => []RowsAdd
  <1>1. PayInv => RowsAdd
    BY DEF PayInv, PayCore
  <1> QED
    BY <1>1, PaymentsInvariant, PTL

\* However many payments spend from a wallet at once, it never holds less than its
\* ledger says: a payment is not charged twice, nor for more than its row.
THEOREM NobodyIsOvercharged ==
  ASSUME ProviderRejectsDuplicates
  PROVE  PaySpec => []NeverOvercharged
  <1>1. PayInv => NeverOvercharged
    BY DEF PayInv
  <1> QED
    BY <1>1, PaymentsInvariant, PTL

\* Wallet and ledger drift apart at no other point than a debit computed from a
\* balance that has changed since.
THEOREM PaymentsDriftExplained ==
  ASSUME ProviderRejectsDuplicates
  PROVE  PaySpec => DriftOnlyFromStaleDebit
  <1>1. PayInv /\ [PayNext]_payVars =>
          [\A u \in User :
             balance'[u] - LedgerBalance(u)' # balance[u] - LedgerBalance(u) =>
               \E r \in Req : /\ At(r, "commit")
                              /\ req[r].user = u
                              /\ req[r].seen # balance[u]]_payVars
    BY StepDrifts DEF PayInv
  <1> QED
    BY <1>1, PaymentsInvariant, PTL DEF PaySpec, DriftOnlyFromStaleDebit

\* A settled row is never written again, neither by a second completion of the
\* same transfer nor by the catch of a purchase.
THEOREM SettledForGood ==
  ASSUME ProviderRejectsDuplicates
  PROVE  PaySpec => SettledRowsAreFinal
  <1>1. PayInv /\ [PayNext]_payVars =>
          [\A t \in DOMAIN txn : txn[t].status # "PENDING" => txn'[t] = txn[t]]_payVars
    BY StepSettles DEF PayInv
  <1> QED
    BY <1>1, PaymentsInvariant, PTL DEF PaySpec, SettledRowsAreFinal

\* Points leave a wallet only with the completion of a row that shows it.
THEOREM NoDebitWithoutRow ==
  ASSUME ProviderRejectsDuplicates
  PROVE  PaySpec => BalanceMovesWithItsRow
  <1>1. PayInv /\ [PayNext]_payVars =>
          [\A u \in User : balance'[u] # balance[u] =>
             \E t \in DOMAIN txn : /\ txn[t].user = u
                                   /\ txn[t].status = "PENDING"
                                   /\ txn'[t].status = "COMPLETED"
                                   /\ txn'[t].after = balance'[u]]_payVars
    BY StepSettles DEF PayInv
  <1> QED
    BY <1>1, PaymentsInvariant, PTL DEF PaySpec, BalanceMovesWithItsRow

-----------------------------------------------------------------------------
(* Refinement: Payments implements PaymentOrder, for the mapping of the     *)
(* instance Order.                                                          *)

StatusMap == [t \in TxnId |-> IF t \in DOMAIN txn THEN txn[t].status ELSE "UNPLACED"]

LEMMA OrderInitMap == PayInit => Order!OrderInit
  BY PaymentsAssumption DEF PayInit, LedgerInit, Order!OrderInit

\* Faults only accumulate: the abstract trouble stays once it is there.
LEMMA TroubleStays ==
  ASSUME PayTypeOK, [PayNext]_payVars
  PROVE  faults > 0 => faults' > 0
  <1>1. faults \in Nat
    BY PaymentsAssumption DEF PayTypeOK
  <1>2. faults' = faults \/ faults' = faults + 1
    BY DEF PayNext, payVars, Arrive, Advance, Fail, BillRead, InitiateRead, CompleteLookup,
           ResolveAccount, CreateRow, CreateRefused, CompleteRead, ProviderAccepts,
           ProviderRefuses, Commit, MarkFailed, Notify, AnswerLost, CommitAborts,
           MarkFailedFails, Crash, Fault
  <1> QED
    BY <1>1, <1>2

\* What a provider delivers is PENDING and was not delivered before.
LEMMA DeliversPending ==
  ASSUME PayCore, ProviderRejectsDuplicates, NEW r \in Req, At(r, "pay"), Deliverable(r)
  PROVE  req[r].txn \in DOMAIN txn /\ txn[req[r].txn].status = "PENDING" /\ req[r].txn \notin accepted
  <1>1. req[r].txn \in DOMAIN txn /\ txn[req[r].txn] \in Row
    BY DEF PayCore, RequestRow, HasRow, At, PayTypeOK, LedgerTypeOK
  <1>2. CASE req[r].op = "bill"
    BY <1>1, <1>2 DEF PayCore, BillOwnsRow, BillSentOnce, HasRow, At
  <1>3. CASE req[r].op # "bill"
    BY <1>1, <1>3 DEF PayCore, Deliverable, CompletedWasAccepted, RowsSound, DebitType, Row, RowStatus
  <1> QED
    BY <1>2, <1>3

\* A purchase that was delivered is only marked FAILED after a fault.
LEMMA FailsUndelivered ==
  ASSUME PayCore, NEW r \in Req, MarkFailed(r), req[r].txn \in accepted
  PROVE  faults > 0
  <1>1. HasRow(r) /\ req[r].op = "bill" /\ txn[req[r].txn].status = "PENDING"
        /\ txn[req[r].txn].type = "BILL"
    BY DEF PayCore, MarkFailed, RequestRow, RequestStage, BillOwnsRow, HasRow, At
  <1>2. ~\E q \in Req : At(q, "commit") /\ req[q].txn = req[r].txn
    BY <1>1 DEF PayCore, RequestStage, BillOwnsRow, MarkFailed, HasRow, At
  <1> QED
    BY <1>1, <1>2 DEF PayCore, DeliveredIsCharged

LEMMA OrderStep ==
  ASSUME PayCore, ProviderRejectsDuplicates, [PayNext]_payVars
  PROVE  Order!OrderNext
  <1>1. faults > 0 => faults' > 0
    BY TroubleStays DEF PayCore
  <1>2. DOMAIN txn \subseteq TxnId
    BY DEF PayCore, PayTypeOK, LedgerTypeOK
  <1>3. SUFFICES Order!Progress \/ (UNCHANGED StatusMap /\ UNCHANGED accepted)
    BY <1>1 DEF Order!OrderNext, StatusMap
  <1>4. ASSUME NEW r \in Req, NEW t \in TxnId, CreateRow(r, t) PROVE Order!Place(t)
    BY <1>2, <1>4 DEF CreateRow, WithRow, Insert, Order!Place, Order!Becomes
  <1>5. ASSUME NEW r \in Req, ProviderAccepts(r) \/ AnswerLost(r)
        PROVE  \E t \in TxnId : Order!Deliver(t)
    BY <1>2, <1>5, DeliversPending DEF ProviderAccepts, AnswerLost, Order!Deliver
  <1>6. ASSUME NEW r \in Req, Commit(r) PROVE \E t \in TxnId : Order!Complete(t)
    <2>1. req[r] \in Job /\ req[r].txn \in accepted
      BY <1>6, BusyIsJob DEF Commit, At, PayCore, RequestStage
    <2>2. req[r].txn \in DOMAIN txn /\ txn[req[r].txn] \in Row /\ txn[req[r].txn].status = "PENDING"
      BY <1>6, WritesPending DEF PayCore, PayTypeOK, LedgerTypeOK
    <2>3. PaidRow(txn[req[r].txn], req[r]).status = "COMPLETED"
      BY <2>1, <2>2, PaidRowFields
    <2> QED
      BY <1>2, <1>6, <2>1, <2>2, <2>3 DEF Commit, Order!Complete, Order!Becomes
  <1>7. ASSUME NEW r \in Req, MarkFailed(r) PROVE \E t \in TxnId : Order!Refuse(t)
    <2>1. req[r].txn \in DOMAIN txn /\ txn[req[r].txn] \in Row /\ txn[req[r].txn].status = "PENDING"
      BY <1>7, WritesPending DEF PayCore, PayTypeOK, LedgerTypeOK
    <2>2. [txn[req[r].txn] EXCEPT !.status = "FAILED"].status = "FAILED"
      BY <2>1 DEF Row
    <2>3. /\ DOMAIN txn' = DOMAIN txn
          /\ txn'[req[r].txn] = [txn[req[r].txn] EXCEPT !.status = "FAILED"]
          /\ \A x \in DOMAIN txn \ {req[r].txn} : txn'[x] = txn[x]
          /\ UNCHANGED accepted
      BY <1>7, <2>1 DEF MarkFailed, PayCore, PayTypeOK, LedgerTypeOK
    <2>4. req[r].txn \in accepted => faults > 0
      BY <1>7, FailsUndelivered
    <2>5. txn'[req[r].txn].status = "FAILED"
      BY <2>2, <2>3
    <2>6. /\ DOMAIN txn' = DOMAIN txn
          /\ \A x \in DOMAIN txn \ {req[r].txn} : txn'[x] = txn[x]
          /\ UNCHANGED accepted
      BY <2>3
    <2>7. Order!Becomes(req[r].txn, "PENDING", "FAILED")
      BY <1>2, <2>1, <2>5, <2>6 DEF Order!Becomes
    <2> QED
      BY <1>2, <2>1, <2>4, <2>7 DEF Order!Refuse
  <1>8. CASE ~\E r \in Req : \/ \E t \in TxnId : CreateRow(r, t)
                            \/ ProviderAccepts(r) \/ AnswerLost(r) \/ Commit(r) \/ MarkFailed(r)
    BY <1>8
    DEF PayNext, payVars, Arrive, Advance, Fail, BillRead, InitiateRead, CompleteLookup,
        ResolveAccount, CreateRefused, CompleteRead, ProviderRefuses, Notify, CommitAborts,
        MarkFailedFails, Crash, StatusMap
  <1> QED
    BY <1>4, <1>5, <1>6, <1>7, <1>8 DEF Order!Progress

\* The handlers implement the abstract payment, whatever they interleave with.
THEOREM PaymentsImplementOrder ==
  ASSUME ProviderRejectsDuplicates
  PROVE  PaySpec => ImplementsOrder
  <1>1. PayInv /\ [PayNext]_payVars => [Order!OrderNext]_Order!orderVars
    BY OrderStep DEF PayInv
  <1> QED
    BY <1>1, OrderInitMap, PaymentsInvariant, PTL DEF PaySpec, ImplementsOrder, Order!OrderSpec
=============================================================================
