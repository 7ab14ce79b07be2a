----------------------------- MODULE PushQueue -----------------------------
(***************************************************************************)
(* QueuesService with the redis driver: the jobs of its two queues, "push" *)
(* and "pickup", which have the same options, and their workers; and the   *)
(* push tokens of UsersService, to which the jobs are sent.                *)
(*                                                                         *)
(* The jobs are in Redis and survive a restart of the process.  Its        *)
(* workers do not: one is started when this process adds a job, so that    *)
(* jobs of an earlier process wait for the next one that is added.         *)
(***************************************************************************)
EXTENDS Naturals, FiniteSets

CONSTANTS
    User, Device, NoDevice,
    Job,            \* names of jobs
    TokenCall,      \* the setPushToken requests in flight at a time
    MaxTries,       \* attempts of a job, 10 in the code
    MaxRestarts     \* bound: restarts of the process

ASSUME PushAssumption ==
    /\ NoDevice \notin Device
    /\ IsFiniteSet(TokenCall) /\ TokenCall # {}
    /\ MaxTries \in Nat \ {0}
    /\ MaxRestarts \in Nat

VARIABLES
    device,     \* User.pushToken
    enabled,    \* User.pushNotificationsEnabled
    taking,     \* the setPushToken requests: who has still to take what
    queue,      \* the stored jobs: a function on their names
    worker,     \* the queues this process has started a worker for
    sends,      \* history: how often the provider took the job of a name
    restarts

pushVars == <<device, enabled, taking, queue, worker, sends, restarts>>

QueueName == {"push", "pickup"}
NoCall    == [user |-> "none"]
NoJobs    == [j \in {} |-> {}]

\* A job runs, or waits for its day, its turn or its next attempt; one that
\* failed MaxTries times is kept under its name.
JobType == [name : QueueName, user : User, due : Nat, tries : 0..MaxTries,
            state : {"delayed", "waiting", "active", "failed"}, target : Device \cup {NoDevice}]

PushTypeOK ==
    /\ device \in [User -> Device \cup {NoDevice}]
    /\ enabled \in [User -> BOOLEAN]
    /\ taking \in [TokenCall -> [user : User, device : Device] \cup {NoCall}]
    /\ DOMAIN queue \subseteq Job
    /\ queue \in [DOMAIN queue -> JobType]
    /\ worker \subseteq QueueName
    /\ sends \in [Job -> Nat]
    /\ restarts \in 0..MaxRestarts

PushInit ==
    /\ device \in [User -> Device \cup {NoDevice}]
    /\ \A u, v \in User : device[u] = device[v] => u = v \/ device[u] = NoDevice
    /\ enabled = [u \in User |-> TRUE]
    /\ taking = [c \in TokenCall |-> NoCall]
    /\ queue = NoJobs
    /\ worker = {}
    /\ sends = [j \in Job |-> 0]
    /\ restarts = 0

-----------------------------------------------------------------------------
(* setPushToken, deleteAccount, setPushNotificationPreference *)

\* Mutant: the others keep the token.
Cleared_None(u, d) == device

Cleared(u, d) == [v \in User |-> IF v # u /\ device[v] = d THEN NoDevice ELSE device[v]]

\* First the token is taken from everyone else ...
ClearToken(c, u, d) ==
    /\ taking[c] = NoCall
    /\ device' = Cleared(u, d)
    /\ taking' = [taking EXCEPT ![c] = [user |-> u, device |-> d]]
    /\ UNCHANGED <<enabled, queue, worker, sends, restarts>>

\* ... then it is written.
WriteToken(c) ==
    /\ taking[c] # NoCall
    /\ device' = [device EXCEPT ![taking[c].user] = taking[c].device]
    /\ taking' = [taking EXCEPT ![c] = NoCall]
    /\ UNCHANGED <<enabled, queue, worker, sends, restarts>>

\* deleteAccount: the token of the user goes, in the transaction of
\* Sessions' DeleteAccount.
ReleaseToken(u) ==
    /\ device' = [device EXCEPT ![u] = NoDevice]
    /\ UNCHANGED <<enabled, taking, queue, worker, sends, restarts>>

SetPreference(u, on) ==
    /\ enabled' = [enabled EXCEPT ![u] = on]
    /\ UNCHANGED <<device, taking, queue, worker, sends, restarts>>

\* resolvePushTokens
Target(u) == IF enabled[u] THEN device[u] ELSE NoDevice

-----------------------------------------------------------------------------
(* The queues *)

\* enqueuePushNotification and enqueuePickupReminder: a job whose name is
\* taken is ignored by the queue, and the worker is started.
Enqueue(j, name, u, due) ==
    LET job == [name |-> name, user |-> u, due |-> due, tries |-> 0,
                state |-> IF name = "pickup" THEN "delayed" ELSE "waiting",
                target |-> NoDevice]
    IN
    /\ queue' = IF j \in DOMAIN queue THEN queue
                  ELSE [i \in DOMAIN queue \cup {j} |-> IF i = j THEN job ELSE queue[i]]
    /\ sends' = IF j \in DOMAIN queue THEN sends ELSE [sends EXCEPT ![j] = 0]
    /\ worker' = worker \cup {name}

\* notifyUser; every notification adds a job of its own.
PushNotification(j, u) ==
    /\ j \notin DOMAIN queue
    /\ sends[j] = 0
    /\ Enqueue(j, "push", u, 0)
    /\ UNCHANGED <<device, enabled, taking, restarts>>

\* The delay of a job has passed.
Wake(j, today) ==
    /\ j \in DOMAIN queue
    /\ queue[j].state = "delayed"
    /\ queue[j].due <= today
    /\ queue' = [queue EXCEPT ![j].state = "waiting"]
    /\ UNCHANGED <<device, enabled, taking, worker, sends, restarts>>

\* A worker takes a job and resolves the tokens of its user.
TakeJob(j) ==
    /\ j \in DOMAIN queue
    /\ queue[j].state = "waiting"
    /\ queue[j].name \in worker
    /\ queue' = [queue EXCEPT ![j].state = "active", ![j].target = Target(queue[j].user)]
    /\ UNCHANGED <<device, enabled, taking, worker, sends, restarts>>

Removed(j) == [i \in DOMAIN queue \ {j} |-> queue[i]]

\* Nobody to push to, or the provider took the message: the job is removed.
FinishJob(j) ==
    /\ j \in DOMAIN queue
    /\ queue[j].state = "active"
    /\ queue' = Removed(j)
    /\ sends' = IF queue[j].target = NoDevice THEN sends ELSE [sends EXCEPT ![j] = @ + 1]
    /\ UNCHANGED <<device, enabled, taking, worker, restarts>>

\* Mutant: the attempts are not counted.
Retried_Uncounted(job) == [job EXCEPT !.state = "waiting"]

Retried(job) ==
    [job EXCEPT !.tries = @ + 1,
                !.state = IF job.tries + 1 = MaxTries THEN "failed" ELSE "waiting"]

\* The job throws, perhaps after the provider took the message.
FailJob(j, took) ==
    /\ j \in DOMAIN queue
    /\ queue[j].state = "active"
    /\ took => queue[j].target # NoDevice
    /\ queue' = [queue EXCEPT ![j] = Retried(@)]
    /\ sends' = IF took THEN [sends EXCEPT ![j] = @ + 1] ELSE sends
    /\ UNCHANGED <<device, enabled, taking, worker, restarts>>

\* The pushes that have been handed to the provider and not acknowledged.
Pushing == {j \in DOMAIN queue : queue[j].state = "active" /\ queue[j].target # NoDevice}

\* The process restarts, some of its pushes taken by the provider and the jobs
\* not removed; the queue gives its active jobs to the next worker.
RestartProcess ==
    /\ restarts < MaxRestarts
    /\ restarts' = restarts + 1
    /\ worker' = {}
    /\ taking' = [c \in TokenCall |-> NoCall]
    /\ queue' = [j \in DOMAIN queue |->
                   IF queue[j].state = "active" THEN [queue[j] EXCEPT !.state = "waiting"]
                                                ELSE queue[j]]
    /\ \E took \in SUBSET Pushing :
         sends' = [j \in Job |-> IF j \in took THEN sends[j] + 1 ELSE sends[j]]
    /\ UNCHANGED <<device, enabled>>

TokenStep ==
    \/ \E c \in TokenCall : \/ WriteToken(c)
                            \/ \E u \in User, d \in Device : ClearToken(c, u, d)
    \/ \E u \in User : ReleaseToken(u) \/ \E on \in BOOLEAN : SetPreference(u, on)

WorkerStep(j) == TakeJob(j) \/ FinishJob(j) \/ \E took \in BOOLEAN : FailJob(j, took)

\* The steps the rest of the server takes no part in.
UserStep == TokenStep \/ \E j \in Job, u \in User : PushNotification(j, u)

-----------------------------------------------------------------------------
\* Users who take a device at once may all end up with it, but each taking of
\* it clears the earlier ones: its holders are no more than the requests that
\* can overlap.
HoldersBounded ==
    \A d \in Device : Cardinality({u \in User : device[u] = d}) <= Cardinality(TokenCall)

\* A message is pushed again if an attempt fails, or the process dies, after
\* the provider took it, and as often as that at most.
SendsBounded == \A j \in Job : sends[j] <= MaxTries + restarts

\* Who has a device or is about to: WriteToken changes the half, not the whole.
Claimants(d) ==
    {u \in User : device[u] = d \/ \E c \in TokenCall : taking[c] = [user |-> u, device |-> d]}

ClaimsBounded ==
    \A d \in Device : /\ IsFiniteSet(Claimants(d))
                      /\ Cardinality(Claimants(d)) <= Cardinality(TokenCall)

\* What a stored job has been tried and pushed.
TriesCounted ==
    \A j \in DOMAIN queue : /\ sends[j] <= queue[j].tries + restarts
                            /\ queue[j].state # "failed" => queue[j].tries < MaxTries

PushInv == PushTypeOK /\ ClaimsBounded /\ TriesCounted /\ SendsBounded

\* A job that waits is pushed, or given up after its attempts, unless the
\* process restarts and no job is added again.
JobsSettle ==
    \A j \in Job :
      (j \in DOMAIN queue /\ queue[j].state = "waiting") ~>
        (j \notin DOMAIN queue \/ queue[j].state = "failed" \/ queue[j].name \notin worker)
=============================================================================
