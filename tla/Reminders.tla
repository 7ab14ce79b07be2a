----------------------------- MODULE Reminders -----------------------------
(***************************************************************************)
(* PickupReminderScheduler: the reminders of a scheduled pickup, one on    *)
(* the day before and one on the day.  With the scheduler driver an hourly *)
(* cron sends them from eight o'clock on; the internal job does so at any  *)
(* time, with either driver; with the redis driver a delayed job pushes    *)
(* the first.  A run finds the deposits that are due and not stamped, and  *)
(* notifies, pushes and stamps each of them, all at the same time.         *)
(***************************************************************************)
EXTENDS PushQueue

CONSTANTS
    Deposit,        \* scheduled deposits; a delayed job is named after one
    Owner,          \* whose they are
    CronRun,        \* runs of the cron in flight at a time
    JobRun,         \* runs of the internal job in flight at a time
    LastDay,        \* bound: days
    MaxFaults       \* bound: failed writes and restarts

ASSUME ReminderAssumption ==
    /\ Deposit \subseteq Job
    /\ Owner \in [Deposit -> User]
    /\ CronRun \cap JobRun = {}
    /\ IsFiniteSet(CronRun) /\ IsFiniteSet(JobRun)
    /\ LastDay \in Nat /\ MaxFaults \in Nat

VARIABLES
    driver,     \* QUEUE_DRIVER
    today,
    open,       \* it is eight o'clock or later
    cronRan,    \* the cron has fired since then
    pickup,     \* status, date and reminder stamps of the deposits
    run,        \* the state of every run
    told,       \* history: the notifications created
    lost,       \* history: those of them that were never stamped
    faults

clockVars    == <<driver, today, open, cronRan>>
reminderVars == <<clockVars, pickup, run, told, lost, faults>>
vars         == <<pushVars, reminderVars>>

Kind == {"dayBefore", "morning"}
Run  == CronRun \cup JobRun
Idle == [day |-> 0, find |-> {}, tasks |-> {}]
Task == [deposit : Deposit, kind : Kind, pc : {"notify", "stamp"}]

RemindersTypeOK ==
    /\ PushTypeOK
    /\ driver \in {"scheduler", "redis"}
    /\ today \in 0..LastDay
    /\ open \in BOOLEAN /\ cronRan \in BOOLEAN
    /\ pickup \in [Deposit -> [scheduled : BOOLEAN, date : 0..LastDay, stamped : SUBSET Kind]]
    /\ run \in [Run -> [day : 0..LastDay, find : SUBSET Kind, tasks : SUBSET Task]]
    /\ told \in [Deposit \X Kind -> Nat]
    /\ lost \in [Deposit \X Kind -> Nat]
    /\ faults \in 0..MaxFaults

RemindersInit ==
    /\ PushInit
    /\ driver \in {"scheduler", "redis"}
    /\ today = 0
    /\ open = FALSE /\ cronRan = FALSE
    /\ pickup = [d \in Deposit |-> [scheduled |-> FALSE, date |-> 0, stamped |-> {}]]
    /\ run = [r \in Run |-> Idle]
    /\ told = [x \in Deposit \X Kind |-> 0]
    /\ lost = [x \in Deposit \X Kind |-> 0]
    /\ faults = 0

-----------------------------------------------------------------------------
(* Deposits and days *)

\* schedulePickup, the first time or again: the stamps stay.  With the redis
\* driver a job is delayed to 24 hours before the pickup, unless these have
\* begun, which on the day before depends on the hour, or adding it fails.
SchedulePickup(d, date) ==
    /\ date >= today
    /\ pickup' = [pickup EXCEPT ![d].scheduled = TRUE, ![d].date = date]
    /\ \/ driver = "redis" /\ date > today /\ Enqueue(d, "pickup", Owner[d], date - 1)
       \/ UNCHANGED <<queue, sends, worker>>
    /\ UNCHANGED <<device, enabled, taking, restarts, clockVars, run, told, lost, faults>>

\* The deposit is picked up, credited or rejected.
LeaveSchedule(d) ==
    /\ pickup[d].scheduled
    /\ pickup' = [pickup EXCEPT ![d].scheduled = FALSE]
    /\ UNCHANGED <<pushVars, clockVars, run, told, lost, faults>>

OpenDay ==
    /\ ~open
    /\ open' = TRUE
    /\ UNCHANGED <<pushVars, driver, today, cronRan, pickup, run, told, lost, faults>>

\* The timer fires every hour, so that no day ends without the cron.
EndDay ==
    /\ open
    /\ today < LastDay
    /\ driver = "scheduler" => cronRan
    /\ today' = today + 1
    /\ open' = FALSE /\ cronRan' = FALSE
    /\ UNCHANGED <<pushVars, driver, pickup, run, told, lost, faults>>

-----------------------------------------------------------------------------
(* Runs *)

Begin(r) ==
    /\ run[r] = Idle
    /\ run' = [run EXCEPT ![r] = [day |-> today, find |-> Kind, tasks |-> {}]]
    /\ UNCHANGED <<pushVars, driver, today, open, pickup, told, lost, faults>>

\* sendDuePickupReminders
FireCron(r) ==
    /\ r \in CronRun
    /\ driver = "scheduler"
    /\ open
    /\ Begin(r)
    /\ cronRan' = TRUE

\* The request to the internal job, with its secret.
RunJob(r) ==
    /\ r \in JobRun
    /\ Begin(r)
    /\ UNCHANGED cronRan

\* Mutant: both look at the deposits of tomorrow.
Window_Tomorrow(kind, day) == day + 1

\* The day the pickups of a reminder are on, when it is sent on day.
Window(kind, day) == IF kind = "dayBefore" THEN day + 1 ELSE day

\* Mutant: the stamps are not looked at.
Due_Stamped(kind, day) ==
    {d \in Deposit : pickup[d].scheduled /\ pickup[d].date = Window(kind, day)}

Due(kind, day) ==
    {d \in Deposit : /\ pickup[d].scheduled
                     /\ pickup[d].date = Window(kind, day)
                     /\ kind \notin pickup[d].stamped}

\* A run is over when both its searches and all its tasks are.
Rest(day, find, tasks) ==
    IF find = {} /\ tasks = {} THEN Idle ELSE [day |-> day, find |-> find, tasks |-> tasks]

\* sendDayBeforeReminders and sendPickupMorningReminders, each on its own.
Find(r, kind) ==
    LET found == [deposit : Due(kind, run[r].day), kind : {kind}, pc : {"notify"}] IN
    /\ kind \in run[r].find
    /\ run' = [run EXCEPT ![r] = Rest(@.day, @.find \ {kind}, @.tasks \cup found)]
    /\ UNCHANGED <<pushVars, clockVars, pickup, told, lost, faults>>

\* Task t of run r is replaced by what is left of it; the others go on.
Replace(r, t, left) ==
    run' = [run EXCEPT ![r] = Rest(@.day, @.find, (@.tasks \ {t}) \cup left)]

\* The notification, then at once the push of sendPickupReminderPush: whatever
\* that throws is caught.
Notify(r, t) ==
    /\ t \in run[r].tasks
    /\ t.pc = "notify"
    /\ told' = [told EXCEPT ![<<t.deposit, t.kind>>] = @ + 1]
    /\ Replace(r, t, {[t EXCEPT !.pc = "stamp"]})
    /\ UNCHANGED <<pushVars, clockVars, pickup, lost, faults>>

Stamp(r, t) ==
    /\ t \in run[r].tasks
    /\ t.pc = "stamp"
    /\ pickup' = [pickup EXCEPT ![t.deposit].stamped = @ \cup {t.kind}]
    /\ Replace(r, t, {})
    /\ UNCHANGED <<pushVars, clockVars, told, lost, faults>>

\* Mutant: a failed notification is caught like a failed push.
Left_Caught(t) == IF t.pc = "notify" THEN {[t EXCEPT !.pc = "stamp"]} ELSE {}

\* What is left of a task whose notification or stamp fails: the run rejects.
Left(t) == {}

FailTask(r, t) ==
    /\ faults < MaxFaults
    /\ t \in run[r].tasks
    /\ faults' = faults + 1
    /\ lost' = IF t.pc = "stamp" THEN [lost EXCEPT ![<<t.deposit, t.kind>>] = @ + 1] ELSE lost
    /\ Replace(r, t, Left(t))
    /\ UNCHANGED <<pushVars, clockVars, pickup, told>>

\* The runs that have told a reminder and not stamped it yet.
Unstamped(d, kind) ==
    {r \in Run : \E t \in run[r].tasks : t.deposit = d /\ t.kind = kind /\ t.pc = "stamp"}

\* The process restarts: its runs are gone.
Restart ==
    /\ faults < MaxFaults
    /\ RestartProcess
    /\ faults' = faults + 1
    /\ lost' = [x \in Deposit \X Kind |-> lost[x] + Cardinality(Unstamped(x[1], x[2]))]
    /\ run' = [r \in Run |-> Idle]
    /\ UNCHANGED <<clockVars, pickup, told>>

RunStep(r) ==
    \/ \E kind \in Kind : Find(r, kind)
    \/ \E t \in run[r].tasks : Notify(r, t) \/ Stamp(r, t)

\* The jobs of the pickup queue, which wake on their day.
QueueStep(j) == (Wake(j, today) \/ WorkerStep(j)) /\ UNCHANGED reminderVars

RemindersNext ==
    \/ \E d \in Deposit : LeaveSchedule(d) \/ \E date \in 0..LastDay : SchedulePickup(d, date)
    \/ OpenDay \/ EndDay \/ Restart
    \/ \E r \in Run : FireCron(r) \/ RunJob(r) \/ RunStep(r)
                        \/ \E t \in run[r].tasks : FailTask(r, t)
    \/ \E j \in Job : QueueStep(j)

SystemNext == RemindersNext \/ (UserStep /\ UNCHANGED reminderVars)

\* The timer fires, the run it begins goes on, and so do the workers: nothing in
\* them waits for anything but the database and the provider.  Of the internal
\* job nothing is assumed.
RemindersFairness ==
    /\ \A r \in CronRun : WF_vars(FireCron(r)) /\ WF_vars(RunStep(r))
    /\ \A j \in Job : WF_vars(QueueStep(j))

RemindersSpec == RemindersInit /\ [][SystemNext]_vars /\ RemindersFairness

-----------------------------------------------------------------------------
\* A stamp says that the owner was told: it comes last, so that whatever fails
\* before it is tried again by the next run.
StampedWasTold ==
    \A d \in Deposit : \A kind \in pickup[d].stamped : told[<<d, kind>>] > 0

\* A run has at most one task for each reminder.
TasksOnce ==
    \A r \in Run : \A t \in run[r].tasks :
      /\ t.kind \notin run[r].find
      /\ \A s \in run[r].tasks : s.deposit = t.deposit /\ s.kind = t.kind => s = t

\* The runs that are still to tell a reminder.
Untold(d, kind) ==
    {r \in Run : \E t \in run[r].tasks : t.deposit = d /\ t.kind = kind /\ t.pc = "notify"}

\* Before the stamp every notification is waiting for its stamp or has lost it.
ToldCounted ==
    \A d \in Deposit, kind \in Kind :
      /\ kind \notin pickup[d].stamped =>
           told[<<d, kind>>] = lost[<<d, kind>>] + Cardinality(Unstamped(d, kind))
      /\ told[<<d, kind>>] + Cardinality(Untold(d, kind)) <= lost[<<d, kind>>] + Cardinality(Run)

\* A task that is to stamp has told.
StampersTold ==
    \A r \in Run : \A t \in run[r].tasks : t.pc = "stamp" => told[<<t.deposit, t.kind>>] > 0

\* The documents, jobs and runs have their types, and no stamp is without its
\* notification: failures, restarts and new dates included.
RemindersInv ==
    RemindersTypeOK /\ PushInv /\ StampedWasTold /\ StampersTold /\ TasksOnce /\ ToldCounted

\* A reminder is repeated only by runs that overlap or because a stamp was
\* lost, however often the pickup is scheduled again: once stamped, never more.
RepeatsBounded ==
    \A d \in Deposit, kind \in Kind : told[<<d, kind>>] <= Cardinality(Run) + lost[<<d, kind>>]

PickupOn(d, kind, day) ==
    /\ pickup[d].scheduled
    /\ \/ kind = "morning"   /\ pickup[d].date = day
       \/ kind = "dayBefore" /\ pickup[d].date = day + 1

\* With the scheduler driver, a pickup that is due before the cron has fired on
\* a day gets that day's reminder, unless it moves, or something fails.
ReminderComes ==
    \A d \in Deposit, kind \in Kind, day \in 0..LastDay :
      (driver = "scheduler" /\ today = day /\ open /\ ~cronRan /\ PickupOn(d, kind, day)) ~>
        (kind \in pickup[d].stamped \/ ~PickupOn(d, kind, day) \/ faults > 0)
=============================================================================
