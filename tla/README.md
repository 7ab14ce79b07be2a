# Verification of the Arho server

TLA+ models of the Arho API (`src/`), their TLC configurations, and TLAPS
proofs about them. Arho is a NestJS server on MongoDB (through Prisma): users
hand in recyclables, administrators decide the deposits and so credit a points
wallet, and the wallet pays for airtime, data, cable TV, electricity and bank
transfers through two providers, VTpass and Flutterwave.

The server is a set of asynchronous handlers in one event loop (and possibly in
several processes): between any two `await`s of one handler, every other handler
may run. Few of them use a transaction, and those that do protect different
things. That is where the hard behaviour is, and what the models are about.

## 1. Inventory

Paths are relative to `src/src/modules/` unless they say otherwise.

| Component | State | Operations | Talks to | Hard behaviour | What makes it correct |
|---|---|---|---|---|---|
| Payments (`payments/`) | `User.pointBalance`, `Transaction` rows | `buyAirtime`, `buyData`, `buyCable`, `buyElectricity` (all through `walletGatewayPurchase`), `initiateTransfer`, `completeTransfer` | PIN check (auth), VTpass, Flutterwave, notifications | overlapping spends, a balance read long before it is written, provider answers lost, aborts after delivery, crashes | no overdraft; charged if and only if delivered, faults apart; a settled row is final; wallet and ledger agree |
| Deposit processing (`admins/admins.service.ts`) | `DepositRequest.status`, balances, `CREDIT` rows, `Referral` | `processDeposit`, `schedulePickup`, `markPickupArrived`, `markPickedUp`, `toggleUserStatus` | notifications, queues | two admins at once, write conflicts, unguarded status writes, checks on stale reads | decided once; credited exactly; one bonus per referral, to an active referrer |
| Deposits (`deposits/`) | `DepositRequest` | `create`, lists, statistics | catalogue, locations, uploads, notifications | the item changes while it is copied | a deposit keeps the points it was submitted for |
| Transactions (`transactions/`) | - (reads the rows) | lists | - | - | - |
| Authentication (`auth/`) | `RefreshSession`, password and PIN hashes | `register`, `login`, `googleLogin`, `refresh`, `logout`, `forgotPassword`, `resetPassword`, `createPin`, `updatePin`, `forgotPin`, `resetPin`, `verifyPin` | OTP, email, notifications | rotation of one token twice, a refresh racing a revocation, check-then-create | a revoked session mints nothing; unique accounts; one referral per user |
| OTP (`email-verification/`) | `EmailVerification` records with attempts | `sendPurposeOtp`, `verifyPurposeOtp` | email | cooldown and attempt limit checked on stale reads, two records | a code is used once; the newest code counts |
| Users (`users/`) | profile, password, push token, `isActive` | `changePassword`, `deleteAccount`, `setPushToken`, preferences, dashboard | sessions | token claimed by two users | a device belongs to one user, overlapping claims apart |
| Admin accounts (`admins/`) | `Admin` | `login`, `createAdmin`, `updateAdmin`, `deleteAdmin`, `toggleAdminStatus`, `changePassword` | - | two admins acting on each other, guards that are passed once | unique accounts; somebody can always manage the admins, overlapping requests apart |
| Locations (`locations/`) | `Country`, `State`, `Area` | create, update, delete of each | deposits, users | count-then-delete, updates that break the hierarchy | no deletion leaves an orphan behind; an area's country is its state's |
| Item catalogue (`items/`) | `Item` | create, update, toggle, delete | deposits | repricing during a submission, two toggles at once | a deposit is worth what its item was offered for |
| Notifications (`notifications/`) | `Notification` | `notifyUser(Safely)`, `broadcast`, `markRead`, `markAllRead` | queues | a failure must not break the caller | read once, told once |
| Queues and push (`src/src/queues/`) | BullMQ jobs, or none | `enqueuePushNotification`, `enqueuePickupReminder`, workers | Redis, Expo | retries, duplicate job ids | a push goes to the token's owner |
| Pickup reminders (`src/src/queues/`) | the two reminder stamps of a deposit | hourly cron, internal job | notifications, push | cron and job overlap, crash before the stamp, rescheduling | a due reminder comes; it is repeated by overlap or a lost stamp only |
| Migration (`src/scripts/`) | all collections | a run that copies or cleans up, document by document | - | a crash in the middle, repetition, the server writing, creating and deleting beside it | repeating it completes it; nothing newer is overwritten |
| Uploads, email, Redis, Prisma, HTTP layer, seeds | - | I/O and set-up | - | - | - |

`PROJECT.json` lists the components with their status, and the hazards of the
code at the line where each bites with the properties that cover it.

## 2. Modules

| Module | What it models |
|---|---|
| `Ledger` | `pointBalance`, the transaction rows, the notifications of success; what a wallet should hold according to its rows |
| `Payments` | `PaymentsService`, one action per awaited call |
| `PaymentOrder` | abstract: one payment, delivered at most once and charged if delivered |
| `DepositProcessing` | deciding, picking up, toggling; MongoDB transactions as snapshot and commit |
| `AtomicCredit` | abstract: deciding a deposit is one indivisible step, alone (`CreditSpec`) or on wallets that are spent from (`SharedSpec`) |
| `Wallet` | `Payments` and `DepositProcessing` on the same wallets |
| `Credentials` | users and requests in flight, shared by the next three |
| `Otp` | one-time codes: cooldown, delivery, attempts, spending |
| `OneTimeCode` | abstract: a code is spent by one request and takes effect at most once; who holds it and how often it took effect are part of the state |
| `Sessions` | sign-in, rotation, logout, and what revokes all sessions |
| `Accounts` | `Otp` and `Sessions` on the same users, password reset, transaction PIN |
| `PushQueue` | push tokens, the two BullMQ queues, their workers, retries and restarts |
| `Reminders` | scheduled pickups, cron and internal job, stamps, delayed jobs |
| `Admins` | guards, admin accounts, their seed |
| `Locations` | countries, states, areas, their seed |
| `Catalogue` | items, their seed, and the points a new deposit copies |
| `Registration` | lookups, referrer, referral code, transaction |
| `Inbox` | notifications, broadcast, reading |
| `Directory` | the last five, each behind the guard of its controller |
| `Migration` | `migrate-legacy-db.js` |
| `*Proofs` | the inductive invariants and the theorems that follow |
| `MC*` | the instances that TLC checks |

### Payments

State: `balance`, `txn` (a function from references to rows), `noticed`
(`Ledger`); `req` (where each HTTP call is, and the local variables it carries
across its awaits), `accepted` (what the providers delivered), `faults`.

| Code | Actions |
|---|---|
| `walletGatewayPurchase` | `BillRead`, `CreateRow`, `ProviderAccepts`/`ProviderRefuses`/`AnswerLost`, `Commit`/`CommitAborts`, `Notify`, and its `catch` `MarkFailed`/`MarkFailedFails` |
| `initiateTransfer` | `InitiateRead`, `ResolveAccount`, `CreateRow` |
| `completeTransfer` | `CompleteLookup`, `CompleteRead`, provider, `Commit`/`CommitAborts`, `Notify` |
| the process | `Crash` |

`seen` is the `user.pointBalance` a handler read; `Rest` is the balance it
writes, computed from `seen` and not from the balance at the time. The four bill
types share one code path and are one. PIN checks and plan look-ups precede the
first action, change nothing and can only end the request. Idle requests stand
for the return or the exception of a call.

### DepositProcessing

State: `deposit`, `referral`, `active`, `origin` (`metadata.depositRequestId` of
the rows) and `call`, the admin requests in flight.

`processDeposit` is one MongoDB transaction: it reads at one snapshot, and
MongoDB aborts it if a document it writes was written by somebody else since.
So `BeginProcess` reads everything, `Commit...` writes everything, and
`Touch` turns an open transaction to `Doomed` when a document in its `Written`
set is written; a doomed transaction can only abort. `AbortProcess` also stands
for time-outs and crashes. The pickup handlers write one document each, outside
of any transaction; `markPickedUp` and `toggleUserStatus` do so after a check on
an earlier read, which is their two actions.

### Wallet

A step is one of the payments or one of the deposits. `PaymentStep` adds what
the two have to do with each other: a debit writes the user document, which
dooms the open credits that are to write it. `WalletInv` is the part of `PayInv`
that credits leave true (`PayCore`) with `DepInv`: that a wallet never holds more
than its opening balance, or than a request has seen, is true of payments alone.

### Credentials, Otp, Sessions, Accounts

A request is a record whose `pc` names the step it takes next. `call` holds the
requests in flight, `user` the fields the handlers decide on.

| Code | Actions |
|---|---|
| `sendPurposeOtp` | `RequestCode`, `CheckCooldown`, `ClearCodes`, `CreateCode`, `DeliverCode` |
| `verifyPurposeOtp` | `SubmitCode`, `LookUpCode`, then `DiscardCode`, `MissCode`, `SpendCode` or `SpendFails` |
| `resetPassword`, `resetPin` | the same, then `ResetPassword`, `ResetPin` |
| `createPin`, `updatePin` | `BeginCreatePin`, `BeginUpdatePin`, `WritePin` |
| `login`, `googleLogin` | `Login`; `GoogleLogin`, `Stamp`; then `Mint` |
| `refresh` | `Refresh`, `Rotate`, `Mint` |
| `logout`, `changePassword`, `deleteAccount` | `Logout`; `BeginChangePassword`, `ChangePassword`; `DeleteAccount` |
| time, admins, the process | `Elapse`, `ExpireSession`; `ToggleUserStatus`; `Restart` |

A code and a session are named by the number they were created with, and to
know the number is to hold the code or the token: codes of six digits are taken to
differ, and guessing one by chance is not modelled. `epoch` of a session
is the number of revocations of its user when it was stored.

`Accounts` shows `OneTimeCode` three things of a code: its status, the requests
that have spent and not yet used it (`Holders`), and how often it took effect
(`used`). The status alone would hide a second spend, or a second use, behind
the first; with the other two each is a step that `OneTimeCode` does not allow.

### PushQueue, Reminders

`queue` is what Redis keeps over a restart, `worker` the queues this process has
a worker for: `ensureWorker` runs when the process adds a job, so that after a
restart old jobs wait for the next new one. `FailJob(j, took)` is an attempt that
throws before or after the provider took the message, and `RestartProcess` too may
come between the push and the removal of its job. `TakeJob` reads the token
of the user, `ClearToken` and `WriteToken` are the two updates of `setPushToken`,
and `ReleaseToken` is what `deleteAccount` does to the token (its other effects are
`DeleteAccount` of `Sessions`).

Days are numbers and a day has two halves, before and after eight o'clock
(`open`). A run of the cron or of the internal job is `Find` for each kind, then
`Notify` and `Stamp` per deposit, all in any order, as in the `Promise.all` of the code;
`FailTask` is a write that rejects, `Restart` ends all runs. `told` counts the
notifications, `lost` those whose stamp was lost to a fault.

### Directory: Admins, Locations, Catalogue, Registration, Inbox

A request that checks and writes in one statement is one action; a request that
checks first is two, and keeps what it read in `managing`, `locating`,
`toggling`, `request` or `registering`. The unique indexes of the schema are
guards of the write (`Taken`, `Free`); where the schema has none, nothing guards
it (`referralCode`, the parents of states and areas). The history variables
(`former`, `fallen`, `buried`, `moved`, `astray`, `offered`, `withdrawn`,
`stale`, `sharing`, `audience`) record what the properties speak of and guard
nothing except that ids are not used twice. Names, codes and other data of
locations and items are left out.

`Directory` joins the five and asks of every admin request that somebody passes
the guards its controller has (`May`); `managing` remembers who.

### Migration

A run is a sequence of phases, each of a collection or two: `Find` reads one,
`Migrate` or `CleanUp` takes the documents one by one, in any order, `NextPhase`
goes on; it can `Die` at any step. One value per document is followed, with its
old name (`legacy`) and its new one (`current`), and of a deposit the name under
which it refers to its item (`link`).

The script takes the first batch of a cursor for the whole of it. `In` computes
that batch at each `Find` from the documents `stored` at the time: the `BatchSize`
ones of lowest `Rank`. The server beside it writes (`ServerWrites`), creates
documents after those there are (`ServerCreates`) and deletes them
(`ServerDeletes`), which moves others up into the batch, between two runs as well
as within one. `due` of a run with `--apply` is what the first batches held when
it began; when it finishes, `complete` takes it in. `early` holds, of every cleanup
with `--apply`, what was not complete when it began.

## 3. What is assumed of the outside

- VTpass gets a fresh `request_id` for each purchase; Flutterwave refuses a
  reference it has accepted (`ProviderRejectsDuplicates`; most theorems do
  without).
- An answer of VTpass without a code, which `payWithVtpass` takes for success, is one.
- A row that is no transfer has no bank account in its metadata, and
  Flutterwave refuses it.
- A MongoDB transaction has a snapshot, aborts on a write conflict, leaves no
  trace when it aborts, and its outcome is reported as it is. An update of one
  document is atomic; a unique index holds.
- BullMQ keeps its jobs, ignores a job whose id is stored, gives an active job
  of a dead worker to the next one, and keeps a job that has failed all attempts.
  It accepts the ids of the pickup jobs, which contain a colon
  (`queues.service.ts:72`). The library is not in the repository, and a version of
  it that refuses such ids would leave the redis driver without pickup jobs.
- `find` without a sort returns documents in the order they were created, and its
  first batch is cut by number (101), not by size.
- Ids of documents are not used twice, and the seeds find what they look for by
  a name or an address that means one document.
- A provider or a connection may fail at any time; such faults are counted and
  bounded by `MaxFaults`, so that a property can say what holds without them.

## 4. Runs

| Run | Bounds | What it shows |
|---|---|---|
| `payments_safety` | 2 users, 2 overlapping requests, 3 rows, 1 fault | `PayInv`: rows add up, nothing completed that was not delivered, no overdraft, notices only of what is completed; nobody overcharged, what is delivered is charged, settled rows final, the wallet moves with its row |
| `payments_order` | 1 user, 2 requests, 2 rows, 2 faults, fair | refinement of `PaymentOrder`; bills settle |
| `deposits_safety` | 2 users, one referred by the other, 2 deposits, 2 admin calls, 4 rows | `DepInv`: what an open transaction has read is fresh, rows and referrals know their deposit, a bonus is five percent of the credit it follows, only credited points are announced; ledger equality, decisions on undecided deposits, one bonus per referral, with deposits reopened and credited twice |
| `deposits_atomic` | as above, 2 rows, the referrer toggled | refinement of `AtomicCredit`, in which a bonus goes to an active referrer |
| `deposits_reopened` (violation) | as above, 3 rows | a credited deposit is scheduled, and credited again |
| `deposits_picked_up` (violation) | as above, 3 rows | a decided deposit becomes `PICKED_UP` |
| `wallet_safety` | 2 users, 1 payment and 1 admin call in flight, 1 deposit, 3 rows | `WalletInv`: what holds of payments and of credits holds of both together; a wallet moves only with a row that shows it, a credit adds exactly its rows, and only a stale debit makes wallet and ledger drift |
| `wallet_lost_credit` (violation) | the same | a debit overwrites a credit |
| `accounts` | 1 user, 2 requests, 2 wrong guesses per code, and seven bounds, one per part of the account (`MCBounds`) | refinement of `OneTimeCode`; guesses, codes and rotations exceed their limits by the overlap only; a revocation ends every session there is; the stage follows the PIN (`AccountsInv`); who can unmark an address |
| `reminders` | 3 users, 1 device, 2 token requests, 1 deposit, 2 days, 2 attempts, 1 restart, 1 fault, fair; four scopes | holders of a device, sends of a job and repetitions of a reminder are bounded; no stamp without its notification; jobs settle; a due reminder comes |
| `directory` | per part 2 requests, 3 ids of admins and users, 2 countries and states, 1 area, 2 items, 2 prices, 2 notifications; one part at a time | what each check guarantees although it comes one step before its write, and what overlapping requests alone can break |
| `migration` | batches of 1; three casts: an item, a second one that moves into the batch when the first is deleted, and a deposit of the second, 1 run; the second item and the deposit, 2 runs; a state, 1 run with or without `--apply`; the server beside each | repetition completes what was in the batch when the run began, and a cleanup loses nothing else unless it came too early (`MigrationInv`); the points of an item reach its deposits; a run replaces nothing it had not read before |

Why the bounds are enough: every hazard listed is a race of two actors over one
balance, row, deposit, code, session, token, parent or item, or one fault
between two steps of a handler; two requests, one shared object and one fault
(two for the refinement) produce each of them. In detail:

- The opening balances (230 and 60, prices 60, transfers 100 plus a fee of 10)
  cover exact, sufficient and insufficient funds, and let a transfer that is
  debited twice and a debit that is lost both happen. 39 points make the rounding
  of the bonus visible (1.95), and four rows let two deposits, or one that was
  reopened, be credited with a bonus both times if the code allowed it.
- `AttemptLimit` is 2 and `MaxTries` 2 instead of 5 and 10: enough to reach the
  limit, to pass it by overlap and to be one short of it. The seven bounds of
  `accounts` let two codes, four sessions, two revocations or three PINs exist,
  each where it matters; the parts that meet (a password reset and a session, a
  verification and a Google sign-in, a PIN reset and two PIN writes) are bounds of their own.
- Two days give each reminder a day it is due and one it is not. The scopes of
  `reminders` (tokens, push queue, delayed jobs of the redis driver, runs of the
  scheduler driver) touch each other in nothing that their properties read.
- A registration draws up to 2 codes of 2 instead of 5 of very many, so that
  collisions, and running out, happen. Three ids let a third user register after
  two whose codes collide.
- The steps of the five parts of `directory` read no variable of another part but
  the admins, who are those of the first state when they are not explored.

`CHECK_DEADLOCK FALSE` is set where the system may come to rest: when every
reference or id of the instance is used and no request is in flight
(`Payments_*`, `Wallet_*`, `Directory`). The other runs check deadlock, as there
a pickup can be rescheduled, a user be toggled or a run be started at any time.

Fairness. `PayFairSpec` asks weak fairness of `Advance(r)` for each request: the
event loop resumes a handler whose awaited call has answered, and database and
providers answer. The latter is an assumption, as the axios clients have no
timeout. `RemindersFairness` asks it of the timer of the cron (`FireCron`), of the
steps of a run of the cron, and of the steps of the queue workers for each job
(`QueueStep`). Nothing is asked of arrivals, faults, the internal job, or of the
steps of its runs.

Every property of a passing run is shown to depend on the code by a mutant: a
variant of one definition, a plausible bug, under which TLC finds the property
violated. They are beside the definition they vary (`..._Unchecked`,
`..._Unnoticed` and so on), under a comment that begins with "Mutant".

## 5. Findings

1. Lost updates of the balance (`wallet_lost_credit`): a payment writes a balance
   computed from the one read before its provider was called. A deposit credited
   meanwhile is undone; so is the debit of an overlapping payment, which then costs
   nothing (`payments_safety` reaches this). `DriftOnlyFromStaleDebit` is what both leave true.
2. Reopened deposits (`deposits_reopened`): `schedulePickup` and
   `markPickupArrived` have no guard on the status.
3. `markPickedUp` (`deposits_picked_up`) overwrites a decision taken after its
   check.

In each case the safety properties that do hold, and are proved, say how far the
damage goes: no wallet is overdrawn, no row is wrong, no referral is paid twice, and
`DriftOnlyFromStaleDebit` says that all of 1 has one cause, the stale read.

Behaviour that no document of the repository speaks against, and that the
properties therefore leave room for; each is a case their bounds contain:

- A rotation that has passed its checks when all sessions are revoked stores a
  new session afterwards (`LiveSinceRevocation` speaks of the sessions there were). One token
  rotated twice at once gives two sessions (`ChildrenBounded`).
- Concurrent guesses exceed the attempts of a code (`AttemptsBounded`). A process
  that dies between spending a code and the reset costs the user his code.
- A Google sign-in does not look at `isActive`, and can unmark an address that
  was verified while it ran (`UnverifiedOnlyByStaleSignIn`).
- `createPin` twice at once: both succeed, the last one counts.
- Two users who claim a device at once may both keep it (`HoldersBounded`).
- The stamps of a deposit survive its rescheduling: the new date gets no
  reminder of a kind that was sent for the old one. With the redis driver there is no cron, so no reminder on the
  morning of the pickup unless the internal job is called; a second delayed job for
  a deposit is ignored while the first is stored; and jobs of an earlier process
  wait until this one adds another.
- A state created while its country is deleted, or an area while its state is,
  is left without a parent (`OrphansCameLate`); `createState` does not ask
  whether its country exists, and updates may move an area to a country its
  state is not in (`MisplacedOnlyByMoves`).
- A manager can take `MANAGE_ADMINS` from himself by `updateAdmin`, and two can
  deactivate each other at once (`LastManagerFallsByOverlap`).
- Overlapping registrations can draw the same referral code (`CodesUnique`).
- The migration takes the first batch of a collection for all of it, and its
  cleanup removes the old names without looking whether they were copied. Run
  first, it loses values; so it does after a complete run, if a deletion in between
  has moved a document that was never copied into the first batch (the `migration`
  run reaches this). `LostOnlyByEarlyCleanup` says of which documents: those that
  no complete run had found when it began.

## 6. Proofs

Every theorem is proved for any values of the constants, under the assumptions
named in the modules, which TLC evaluates in the runs. An invariant is seldom
inductive as it stands; the conjuncts that make it so are named definitions of
the model and are part of the invariant the run checks.

`LedgerProofs`, about `Ledger`: `LedgerBalance` is a sum over a set of rows, written
as a fold. Its lemmas show what the sum does when a row is added, settled or
rewritten (`WorthOfOneMore`, and what follows from it). The library states this of
folds by an induction over an operator, which no prover here can instantiate; the
module does the induction for the one sum there is, from the fact that a set
of naturals that is not empty has a least element (`LeastSet`).

`PaymentsProofs`, about `Payments` with any number of users, requests,
references, prices and faults:

- `PaymentsInvariant`: `PayInv` is inductive. That a commit does not overdraw
  needs that `seen` covers the amount (`RequestStage`); that `FAILED` never
  overwrites a debit needs that a purchase alone writes its row (`BillOwnsRow`);
  that a row adds up at the debit of a bill needs that its `before` is still the
  `seen` of its request (`BillOwnsRow` again). `TransferDebitedOnce` holds only
  with a provider that refuses duplicates, and is conditional on it.
- `PaymentsTypeCorrect`, `WalletBounded`, `ChargedOnlyIfDelivered`,
  `DeliveredOnlyIfCharged`, `LedgerRowsAdd`: the safety properties.
- `NobodyIsOvercharged`: no wallet holds less than its rows leave it. It needs that
  no request has seen less than that either (`SeenCoversLedger`), which is what a
  credit breaks: in the composition the property fails (`wallet_lost_credit`).
- `PaymentsDriftExplained`, `SettledForGood`, `NoDebitWithoutRow`: the action properties.
  These and `NobodyIsOvercharged` assume `ProviderRejectsDuplicates` (without,
  two calls that complete one transfer both write its row).
- `PaymentsImplementOrder`: the refinement of `PaymentOrder`.

`DepositProofs`, about `DepositProcessing`:

- `DepositInvariant`: `DepInv`, whose core is that an open transaction that is
  not doomed has read what is still stored (`Touch` dooms the others). From it
  follow `BonusPaidOnce`, `BonusIsOfTheCredit`, `DecisionsAreFinal` and
  `CreditsAreExact` (a credit adds exactly the rows it writes).
- `CreditsKeepLedger`: while nobody pays, every wallet equals its opening balance
  and its rows, since a commit writes fresh rows and adds their amounts to balances
  that are still those it read.
- `DepositsImplementAtomicCredit`: the refinement of `AtomicCredit`. A commit
  maps to the abstract decision because its snapshot is fresh; every other step
  stutters, or changes the status of an undecided deposit as the pickups do.

`WalletProofs`, about the composition `Wallet`:

- `WalletInvariant`: `WalletInv`. A step of one side must leave true what the other
  side knows across its awaits. A payment leaves the rows and deposits of credits alone,
  and the one thing it writes of what they have read, the debited wallet, it
  writes together with the flag that dooms them; a credit only adds points and
  settled rows under fresh references, so that a balance still covers what was
  covered and a pending row is still whose it was.
- `WalletNeverOverdrawn`, `WalletPaysBonusOnce`, `WalletCreditsAreExact`,
  `WalletDecisionsAreFinal`: what is proved of each side holds of the two together.
- `WalletDriftExplained`, `WalletRowsAreFinal`, `WalletMovesAreShown`: the same of
  action properties, assuming `ProviderRejectsDuplicates`.
- `WalletImplementsSharedCredit`: the refinement of the `SharedSpec` of
  `AtomicCredit`. No run states it: `deposits_atomic` checks the stronger refinement
  of deposits alone, and `wallet_safety` the steps of the two together.

`DirectoryProofs`, about `Directory`:

- `DirectoryInvariant`: `DirectoryInv`, the conjunction of the five invariants.
  A step of one part leaves the variables of the others alone, so each is proved
  by itself. Among locations, that a deletion leaves no orphan needs that what it
  overlooks came after its count (`CountsHold`); that areas are in their country
  needs what a creation knows of a state it has read (`StatesKnown`,
  `CountriesHold`), and that ids are not used again (`BuriedIsGone`). Among
  admins, it is that the actor of a request still stands unless it is on record
  as fallen (`ActorsStand`); in the catalogue, that a toggle which is not stale has
  read the status there is (`FreshToggles`, `TogglesKnown`); in registration, the
  same of codes that were drawn and are not stored yet (`DrawsUnique`).
- `OrphansCameAfterTheCount`, `AreasAreInTheirCountry`, `SnapshotsWereOffered`,
  `ReferralCodesUnique`, `ManagersFallByOverlap`, `ItemTogglesFlip`,
  `FirstReadsStand`: the properties the run checks.

`MigrationProofs`, about `Migration`:

- `MigrationInvariant`: `MigrationInv`. That nothing is left behind needs that what
  is due to a run stays in the first batch for as long as it is stored, so that
  `find` returns it when its turn comes (`OnPlan`): new documents come after those
  there are and a deletion only moves documents up, which is a lemma about the
  cardinality of what precedes a document (`BatchStays`). And it needs that what a
  run has read still holds as far as it matters (`ReadsHold`).
- `NothingIsLeftBehind`, `CleanupAfterwardsLosesNothing` (both are parts of the
  invariant) and `CurrentValuesStand`.
- `ItemPointsReachDeposits`: `DepositsGetItemPoints`, the fallback of a deposit to
  the points of its item. It has an inductive invariant of its own on top
  (`DepositsInv`): a run that has passed a deposit whose item is due to it had read
  the item, and left the deposit with points.

`AccountsProofs`, about `Accounts`:

- `AccountsInvariant`: `AccountsInv`, in three parts that frame one another: users
  and PINs, codes (`OtpInv`), sessions (`SessionInv`). Each limit that overlapping
  requests exceed is proved by counting what is stored together with the requests
  that will still add to it: attempts with the guesses that will be compared
  (`AttemptsCounted`), codes with the requests that have deleted and not created
  (`CodesCounted`), the children of a session with its rotations under way
  (`ChildrenCounted`, which needs that a session nobody has revoked has no
  child yet). From it follow `GuessesAreFew`, `CodesAreFew`, `ChildrenAreFew` and
  `RevocationsHold`; `OnlyStaleSignInUnverifies` is an action property beside it.
- `CodesRefineOneTimeCode`: the refinement. It needs that of the requests past the
  delete no two hold the same code, and that it has not taken effect (`SpentOnce`):
  `Holders` of a code is empty or one request, and its effects are counted in the
  step that empties it; a restart maps to the withdrawal of the codes that were spent and not applied.

`RemindersProofs`, about `Reminders` and `PushQueue`:

- `RemindersInvariant`: `RemindersInv`. Here too one counts those under way: the
  holders of a device with those about to be written (`ClaimsBounded`), the pushes
  of a job with its attempts and the restarts (`TriesCounted`), the notifications of a
  reminder with the tasks that are still to tell and those that have told and not
  stamped (`ToldCounted`), of which a run has one at most (`TasksOnce`).
- `HoldersAreFew`, `SendsAreFew`, `RepeatsAreFew`: the bounds the run checks.

Assumptions: `OpeningAssumption`, `PaymentsAssumption`, those of
`DepositProcessing`, `AdminsAssumption`, `LocationsAssumption`,
`RegistrationAssumption`, `InboxAssumption`, `MigrationAssumption`,
`CallAssumption`, `BoundsAssumption`, `OtpAssumption`, `PushAssumption` and
`ReminderAssumption`: sets of ids are disjoint where they share a variable, absent values
are no values, bounds are natural numbers, a code survives at least one guess, and
finitely many requests and runs are in flight at a time. Where it is said above
there is that of the provider besides; the runs take
`ProviderRejectsDuplicates` to be `TRUE`, and that the invariant holds with a provider
that accepts a reference twice is proved.

Only model-checked: liveness (`BillsSettle`, `JobsSettle`, `ReminderComes`),
which is out of the prover's reach. Every invariant, action property and
refinement that a passing run checks is proved. What the three violations show is
by its nature a run: `CreditedOnce`, `PickedUpAfterSchedule`, and
`NeverOvercharged` of the composition, do not hold.

## 7. Not modelled

- `Transactions`, dashboards, statistics and all other lists: they only read.
- Uploads (Cloudinary), adapters of Redis and Prisma, health checks: I/O and set-up.
- The HTTP layer: validation, rate limits and the form of responses. The guards
  of the admin routes are in `Directory`.
- Which email provider is configured; the outcomes of sending are in `Otp`.
- An acknowledgement of a commit that is lost, which the code takes for an abort.
- The tiers of the transfer fee are `TransferFee` of `Payments`; the amounts of the
  runs are of the first tier, and the proofs hold for any amounts.
- `updateProfile`, an admin's login and `changePassword`: each writes fields that
  nothing here depends on. `verifyPin` only reads.
- Names, codes and the unique indexes of locations and items.
- Of the migration: roles and statuses in upper case, default values of users,
  and custom locations.
- With the scheduler driver a push is a single attempt at once, without a job.

## 8. Plan

Done: everything in section 2.

Left:

1. Lost acknowledgements of commits in `Payments`.
