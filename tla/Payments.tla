------------------------------ MODULE Payments ------------------------------
(***************************************************************************)
(* PaymentsService: the handlers that spend wallet points on bills         *)
(* (airtime, data, cable and electricity) and on bank transfers.           *)
(*                                                                         *)
(* A request is one HTTP call.  It advances by one action per awaited      *)
(* database or provider call, so that any number of requests of the same   *)
(* user interleave between a read of the balance and the write computed    *)
(* from it.  A request that ends (returns, or throws) is idle again.       *)
(***************************************************************************)
EXTENDS Ledger

CONSTANTS
    Req,                        \* the requests in flight at a time
    NoTxn,                      \* a request that has no row yet
    BillAmounts,                \* the prices a bill can have
    TransferAmounts,            \* the amounts a user can ask to transfer
    ProviderRejectsDuplicates,  \* Flutterwave refuses a reference it has accepted
    MaxFaults                   \* bound on crashes, lost answers and aborts

ASSUME PaymentsAssumption ==
    /\ NoTxn \notin TxnId
    /\ BillAmounts \subseteq Nat
    /\ TransferAmounts \subseteq Nat
    /\ ProviderRejectsDuplicates \in BOOLEAN
    /\ MaxFaults \in Nat

VARIABLES
    req,        \* the state of every request
    accepted,   \* the references a provider delivered for
    faults      \* the faults so far

payVars == <<balance, txn, req, accepted, noticed, faults>>

-----------------------------------------------------------------------------
PC == {"resolve", "create", "read", "pay", "commit", "fail", "notify"}
Op == {"bill", "initiate", "complete"}

Job  == [pc : PC, op : Op, user : User, txn : TxnId \cup {NoTxn},
         amount : Nat, seen : Int]
Idle == [pc |-> "idle"]

PayTypeOK ==
    /\ LedgerTypeOK
    /\ req \in [Req -> Job \cup {Idle}]
    /\ accepted \subseteq TxnId
    /\ faults \in 0..MaxFaults

PayInit ==
    /\ LedgerInit
    /\ req = [r \in Req |-> Idle]
    /\ accepted = {}
    /\ faults = 0

TransferFee(amount) ==
    IF amount <= 5000 THEN 10 ELSE IF amount <= 50000 THEN 25 ELSE 50

At(r, pc)   == req[r].pc = pc
Goto(r, pc) == req' = [req EXCEPT ![r].pc = pc]
End(r)      == req' = [req EXCEPT ![r] = Idle]

\* Mutant: an error that is never caught.
Throw_NotCaught(r) == End(r)

\* Where an error takes the request: a bill purchase catches it to mark its
\* row FAILED, every other handler lets it end the request.
Throw(r) == IF req[r].op = "bill" THEN Goto(r, "fail") ELSE End(r)

Fault == /\ faults < MaxFaults
         /\ faults' = faults + 1

-----------------------------------------------------------------------------
(* walletGatewayPurchase *)

\* The PIN is right, the balance read covers the price; otherwise the request
\* ends and has changed nothing.
BillRead(r, u, price) ==
    /\ At(r, "idle")
    /\ balance[u] >= price
    /\ req' = [req EXCEPT ![r] = [pc |-> "create", op |-> "bill", user |-> u,
                   txn |-> NoTxn, amount |-> price, seen |-> balance[u]]]
    /\ UNCHANGED <<balance, txn, accepted, noticed, faults>>

(* initiateTransfer *)

InitiateRead(r, u, amount) ==
    LET total == amount + TransferFee(amount) IN
    /\ At(r, "idle")
    /\ balance[u] >= total
    /\ req' = [req EXCEPT ![r] = [pc |-> "resolve", op |-> "initiate", user |-> u,
                   txn |-> NoTxn, amount |-> total, seen |-> balance[u]]]
    /\ UNCHANGED <<balance, txn, accepted, noticed, faults>>

ResolveAccount(r) ==
    /\ At(r, "resolve")
    /\ Goto(r, "create") \/ End(r)
    /\ UNCHANGED <<balance, txn, accepted, noticed, faults>>

(* both: the PENDING row *)

CreateRow(r, t) ==
    /\ At(r, "create")
    /\ t \notin DOMAIN txn
    /\ txn' = WithRow(t, [status |-> "PENDING",
                          type   |-> IF req[r].op = "bill" THEN "BILL" ELSE "TRANSFER",
                          user   |-> req[r].user,
                          amount |-> req[r].amount,
                          before |-> req[r].seen,
                          after  |-> req[r].seen])
    /\ IF req[r].op = "bill"
         THEN req' = [req EXCEPT ![r].pc = "pay", ![r].txn = t]
         ELSE End(r)
    /\ UNCHANGED <<balance, accepted, noticed, faults>>

\* The row is refused: a price that is no integer, a used reference, an error.
\* No row exists yet, so that nothing is caught.
CreateRefused(r) ==
    /\ At(r, "create")
    /\ End(r)
    /\ UNCHANGED <<balance, txn, accepted, noticed, faults>>

(* completeTransfer *)

\* The row is looked up by its reference alone: it must be PENDING and the
\* caller's, its type is not looked at.
CompleteLookup(r, u, t) ==
    /\ At(r, "idle")
    /\ t \in DOMAIN txn
    /\ txn[t].user = u
    /\ txn[t].status = "PENDING"
    /\ req' = [req EXCEPT ![r] = [pc |-> "read", op |-> "complete", user |-> u,
                   txn |-> t, amount |-> txn[t].amount, seen |-> 0]]
    /\ UNCHANGED <<balance, txn, accepted, noticed, faults>>

\* Mutant: the balance is not compared.
CompleteRead_Unchecked(r) ==
    /\ At(r, "read")
    /\ req' = [req EXCEPT ![r].pc = "pay", ![r].seen = balance[req[r].user]]
    /\ UNCHANGED <<balance, txn, accepted, noticed, faults>>

CompleteRead(r) ==
    /\ At(r, "read")
    /\ IF balance[req[r].user] >= req[r].amount
         THEN req' = [req EXCEPT ![r].pc = "pay",
                                 ![r].seen = balance[req[r].user]]
         ELSE End(r)
    /\ UNCHANGED <<balance, txn, accepted, noticed, faults>>

-----------------------------------------------------------------------------
(* The providers. *)

\* Mutant: a transfer sent under a new reference at every call.
Deliverable_Anew(r) == req[r].op = "bill" \/ txn[req[r].txn].type = "TRANSFER"

\* VTpass gets a fresh request_id for every purchase.  Flutterwave gets the
\* row's reference; the row of a bill has no bank account to send.
Deliverable(r) ==
    \/ req[r].op = "bill"
    \/ /\ txn[req[r].txn].type = "TRANSFER"
       /\ ProviderRejectsDuplicates => req[r].txn \notin accepted

\* Mutant: an answer without a code is taken for an error.
ProviderAccepts_TakenForError(r) ==
    /\ At(r, "pay")
    /\ Deliverable(r)
    /\ accepted' = accepted \cup {req[r].txn}
    /\ Throw(r)
    /\ UNCHANGED <<balance, txn, noticed, faults>>

\* An answer of VTpass without a code is taken for success, and assumed to be one.
ProviderAccepts(r) ==
    /\ At(r, "pay")
    /\ Deliverable(r)
    /\ accepted' = accepted \cup {req[r].txn}
    /\ Goto(r, "commit")
    /\ UNCHANGED <<balance, txn, noticed, faults>>

ProviderRefuses(r) ==
    /\ At(r, "pay")
    /\ Throw(r)
    /\ UNCHANGED <<balance, txn, accepted, noticed, faults>>

\* The provider delivers, the connection breaks before its answer arrives.
AnswerLost(r) ==
    /\ At(r, "pay")
    /\ Deliverable(r)
    /\ Fault
    /\ accepted' = accepted \cup {req[r].txn}
    /\ Throw(r)
    /\ UNCHANGED <<balance, txn, noticed>>

-----------------------------------------------------------------------------
(* The debit: one transaction writes the balance computed from the one seen *)
(* before the provider was called, and the row.                             *)

Rest(job) == job.seen - job.amount

\* A transfer rewrites the balance of the time its row was created.
PaidRow(row, job) ==
    [row EXCEPT !.status = "COMPLETED",
                !.before = IF job.op = "complete" THEN job.seen ELSE row.before,
                !.after  = Rest(job)]

Commit(r) ==
    /\ At(r, "commit")
    /\ balance' = [balance EXCEPT ![req[r].user] = Rest(req[r])]
    /\ txn' = [txn EXCEPT ![req[r].txn] = PaidRow(txn[req[r].txn], req[r])]
    /\ Goto(r, "notify")
    /\ UNCHANGED <<accepted, noticed, faults>>

\* Mutant: no transaction: the balance is written, the row is not.
CommitAborts_Torn(r) ==
    /\ At(r, "commit")
    /\ Fault
    /\ balance' = [balance EXCEPT ![req[r].user] = Rest(req[r])]
    /\ Throw(r)
    /\ UNCHANGED <<txn, accepted, noticed>>

\* The transaction fails (a write conflict, a timeout) and is rolled back.
CommitAborts(r) ==
    /\ At(r, "commit")
    /\ Fault
    /\ Throw(r)
    /\ UNCHANGED <<balance, txn, accepted, noticed>>

\* The catch of walletGatewayPurchase.
MarkFailed(r) ==
    /\ At(r, "fail")
    /\ txn' = [txn EXCEPT ![req[r].txn].status = "FAILED"]
    /\ End(r)
    /\ UNCHANGED <<balance, accepted, noticed, faults>>

MarkFailedFails(r) ==
    /\ At(r, "fail")
    /\ Fault
    /\ End(r)
    /\ UNCHANGED <<balance, txn, accepted, noticed>>

\* notifyUserSafely: a notification that cannot be stored is dropped.
Notify(r) ==
    /\ At(r, "notify")
    /\ noticed' \in {noticed, noticed \cup {req[r].txn}}
    /\ End(r)
    /\ UNCHANGED <<balance, txn, accepted, faults>>

\* The process dies: what the request had not yet done is never done.
Crash(r) ==
    /\ ~At(r, "idle")
    /\ Fault
    /\ End(r)
    /\ UNCHANGED <<balance, txn, accepted, noticed>>

-----------------------------------------------------------------------------
Arrive(r) ==
    \E u \in User :
      \/ \E price \in BillAmounts : BillRead(r, u, price)
      \/ \E amount \in TransferAmounts : InitiateRead(r, u, amount)
      \/ \E t \in TxnId : CompleteLookup(r, u, t)

Advance(r) ==
    \/ ResolveAccount(r)
    \/ \E t \in TxnId : CreateRow(r, t)
    \/ CreateRefused(r)
    \/ CompleteRead(r)
    \/ ProviderAccepts(r)
    \/ ProviderRefuses(r)
    \/ Commit(r)
    \/ MarkFailed(r)
    \/ Notify(r)

Fail(r) ==
    \/ AnswerLost(r)
    \/ CommitAborts(r)
    \/ MarkFailedFails(r)
    \/ Crash(r)

PayNext == \E r \in Req : Arrive(r) \/ Advance(r) \/ Fail(r)

PaySpec == PayInit /\ [][PayNext]_payVars

\* The event loop resumes every handler whose awaited call has answered, and
\* the database and the providers answer (the calls have no timeout of their
\* own: this is an assumption about them).
PayFairSpec == PaySpec /\ \A r \in Req : WF_payVars(Advance(r))

-----------------------------------------------------------------------------
\* No wallet is ever overdrawn, however many requests spend from it at once.
NonNegativeBalance == \A u \in User : balance[u] >= 0

\* A row that takes points is only ever completed, and its user debited, for a
\* purchase or a transfer that the provider delivered.
CompletedWasAccepted ==
    \A t \in DOMAIN txn :
      txn[t].status = "COMPLETED" /\ txn[t].type \in DebitType => t \in accepted

\* A notification of success is only sent for a payment that is COMPLETED and
\* stays so.
NoticeOnlyAfterCompletion ==
    \A t \in noticed : t \in DOMAIN txn /\ txn[t].status = "COMPLETED"

\* The two balances a row shows its user always differ by exactly what the
\* row took or gave: nothing while PENDING or FAILED, its amount once COMPLETED.
RowsAdd ==
    \A t \in DOMAIN txn :
      txn[t].after = IF txn[t].status # "COMPLETED"     THEN txn[t].before
                     ELSE IF txn[t].type \in DebitType THEN txn[t].before - txn[t].amount
                     ELSE txn[t].before + txn[t].amount

\* Spending never leaves a user with more points than the wallet opened with,
\* even when a stale write undoes another debit.
SpendingCreatesNothing == \A u \in User : balance[u] <= Opening[u]

\* Only a fault between the delivery and the debit makes the two disagree:
\* without one, what was delivered is COMPLETED or is about to be.
DeliveredIsCharged ==
    \A t \in accepted :
      \/ faults > 0
      \/ txn[t].status = "COMPLETED"
      \/ \E r \in Req : At(r, "commit") /\ req[r].txn = t

\* A row that is COMPLETED or FAILED is never written again: two calls that
\* complete the same transfer do not both charge for it, and the catch of a
\* purchase never overwrites a debit.
SettledRowsAreFinal ==
    [][\A t \in DOMAIN txn : txn[t].status # "PENDING" => txn'[t] = txn[t]]_payVars

\* A balance moves only together with the completion of a row of that user,
\* to the balance the row shows.
BalanceMovesWithItsRow ==
    [][\A u \in User : balance'[u] # balance[u] =>
         \E t \in DOMAIN txn : /\ txn[t].user = u
                               /\ txn[t].status = "PENDING"
                               /\ txn'[t].status = "COMPLETED"
                               /\ txn'[t].after = balance'[u]]_payVars

\* Wallet and ledger drift apart at no other point than the debit of a request
\* whose user's balance has changed since the request read it.
DriftOnlyFromStaleDebit ==
    [][\A u \in User :
         balance'[u] - LedgerBalance(u)' # balance[u] - LedgerBalance(u) =>
           \E r \in Req : /\ At(r, "commit")
                          /\ req[r].user = u
                          /\ req[r].seen # balance[u]]_payVars

\* A bill never stays PENDING unless a fault interrupted its handler.
OpenBill(t) == t \in DOMAIN txn /\ txn[t].type = "BILL" /\ txn[t].status = "PENDING"
BillsSettle == \A t \in TxnId : OpenBill(t) ~> (faults > 0 \/ ~OpenBill(t))

-----------------------------------------------------------------------------
(* Why the safety properties hold: what is known of a request at each of    *)
(* its awaits, whatever the other requests did meanwhile.                   *)

HasRow(r) == req[r].pc \in {"read", "pay", "commit", "fail", "notify"}

\* The row of a request is there, belongs to the caller and keeps its amount.
RequestRow ==
    \A r \in Req : HasRow(r) =>
      /\ req[r].op \in {"bill", "complete"}
      /\ req[r].txn \in DOMAIN txn
      /\ txn[req[r].txn].user = req[r].user
      /\ txn[req[r].txn].amount = req[r].amount
      /\ txn[req[r].txn].type = "BILL" \/ req[r].op = "complete"

RequestStage ==
    \A r \in Req :
      /\ req[r].pc \notin {"idle", "read"} => req[r].seen >= req[r].amount
      /\ req[r].pc \in {"resolve", "create"} => req[r].op # "complete"
      /\ req[r].pc = "read" => req[r].op = "complete"
      /\ req[r].pc = "fail" => req[r].op = "bill"
      /\ req[r].pc = "notify" => txn[req[r].txn].status = "COMPLETED"
      /\ req[r].pc = "commit" => req[r].txn \in accepted
      /\ req[r].pc = "commit" => req[r].op = "bill" \/ txn[req[r].txn].type = "TRANSFER"

\* A purchase alone writes the row it created, until the row is settled.
BillOwnsRow ==
    \A r \in Req : HasRow(r) /\ req[r].op = "bill" =>
      /\ req[r].pc \in {"pay", "commit", "fail"} =>
           /\ txn[req[r].txn].status = "PENDING"
           /\ txn[req[r].txn].before = req[r].seen
      /\ \A q \in Req \ {r} : HasRow(q) /\ req[q].op = "bill" => req[q].txn # req[r].txn

\* Nothing was delivered for a purchase that is still to be sent.
BillSentOnce ==
    \A r \in Req : At(r, "pay") /\ req[r].op = "bill" => req[r].txn \notin accepted

\* With a provider that takes a reference once, so does the debit.
TransferDebitedOnce ==
    ProviderRejectsDuplicates =>
      \A r \in Req : At(r, "commit") /\ req[r].op = "complete" =>
        /\ txn[req[r].txn].status = "PENDING"
        /\ \A q \in Req \ {r} : At(q, "commit") => req[q].txn # req[r].txn

RowsSound ==
    /\ \A t \in DOMAIN txn : txn[t].status # "COMPLETED" => txn[t].type \in DebitType
    /\ \A t \in DOMAIN txn : txn[t].status = "FAILED" => txn[t].type = "BILL"
    /\ accepted \subseteq DOMAIN txn

\* What stays so whoever else moves points, as long as they are not taken away
\* behind a request's back and rows are only added (Wallet).
PayCore ==
    /\ PayTypeOK
    /\ RequestRow
    /\ RequestStage
    /\ BillOwnsRow
    /\ BillSentOnce
    /\ TransferDebitedOnce
    /\ RowsSound
    /\ NonNegativeBalance
    /\ CompletedWasAccepted
    /\ NoticeOnlyAfterCompletion
    /\ RowsAdd
    /\ DeliveredIsCharged

\* What a request computes with is no more than the wallet opened with ...
SeenWithinOpening ==
    \A r \in Req : req[r].pc \notin {"idle", "read"} => req[r].seen <= Opening[req[r].user]

\* ... and no less than the ledger leaves its user, as long as points are only spent.
SeenCoversLedger ==
    \A r \in Req : req[r].pc \notin {"idle", "read"} => req[r].seen >= LedgerBalance(req[r].user)

\* The inductive invariant: the named parts and the properties they carry.
PayInv ==
    /\ PayCore
    /\ SpendingCreatesNothing
    /\ SeenWithinOpening
    /\ ProviderRejectsDuplicates => NeverOvercharged /\ SeenCoversLedger

-----------------------------------------------------------------------------
(* The abstract payment. *)

Order == INSTANCE PaymentOrder WITH
    Order     <- TxnId,
    status    <- [t \in TxnId |-> IF t \in DOMAIN txn THEN txn[t].status ELSE "UNPLACED"],
    delivered <- accepted,
    trouble   <- faults > 0

\* The handlers implement the abstract payment: delivered at most once, charged
\* only if delivered, refused only if not (a fault apart), settled for good.
ImplementsOrder == Order!OrderSpec
=============================================================================
