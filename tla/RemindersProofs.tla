-------------------------- MODULE RemindersProofs --------------------------
(***************************************************************************)
(* RemindersInv is an inductive invariant of the reminders and their       *)
(* queue, for any number of users, devices, jobs, deposits and runs.       *)
(*                                                                         *)
(* It falls into three parts that share no variable but restarts and       *)
(* faults: the push tokens (TokenFacts), the jobs (JobFacts) and the       *)
(* runs (RunFacts).  Two of the parts count: who has a device or is about  *)
(* to are as many as the requests that can overlap, because taking it      *)
(* clears it; and a reminder that is not stamped has been told once for    *)
(* every run that is about to stamp it and for every stamp that was lost.  *)
(***************************************************************************)
EXTENDS Reminders, FiniteSetTheorems, TLAPS

RunType == [day : 0..LastDay, find : SUBSET Kind, tasks : SUBSET Task]

TokenFacts ==
    /\ device \in [User -> Device \cup {NoDevice}]
    /\ enabled \in [User -> BOOLEAN]
    /\ taking \in [TokenCall -> [user : User, device : Device] \cup {NoCall}]
    /\ ClaimsBounded

JobFacts ==
    /\ DOMAIN queue \subseteq Job
    /\ queue \in [DOMAIN queue -> JobType]
    /\ worker \subseteq QueueName
    /\ sends \in [Job -> Nat]
    /\ restarts \in 0..MaxRestarts
    /\ TriesCounted
    /\ SendsBounded

DayFacts ==
    /\ driver \in {"scheduler", "redis"}
    /\ today \in 0..LastDay
    /\ open \in BOOLEAN /\ cronRan \in BOOLEAN
    /\ faults \in 0..MaxFaults

RunFacts ==
    /\ pickup \in [Deposit -> [scheduled : BOOLEAN, date : 0..LastDay, stamped : SUBSET Kind]]
    /\ run \in [Run -> RunType]
    /\ told \in [Deposit \X Kind -> Nat]
    /\ lost \in [Deposit \X Kind -> Nat]
    /\ StampedWasTold
    /\ StampersTold
    /\ TasksOnce
    /\ ToldCounted

LEMMA Parts ==
  /\ RemindersInv <=> TokenFacts /\ JobFacts /\ DayFacts /\ RunFacts
  /\ RemindersInv' <=> TokenFacts' /\ JobFacts' /\ DayFacts' /\ RunFacts'
  BY DEF RemindersInv, RemindersTypeOK, PushInv, PushTypeOK, TokenFacts, JobFacts,
         DayFacts, RunFacts, RunType

-----------------------------------------------------------------------------
(* The push tokens *)

\* Users who stop to claim a device do no harm.
LEMMA FewerClaimants ==
  ASSUME ClaimsBounded, \A d \in Device : Claimants(d)' \subseteq Claimants(d)
  PROVE  ClaimsBounded'
  <1> SUFFICES ASSUME NEW d \in Device
               PROVE  /\ IsFiniteSet(Claimants(d)')
                      /\ Cardinality(Claimants(d)') <= Cardinality(TokenCall)
    BY DEF ClaimsBounded
  <1>1. IsFiniteSet(Claimants(d)) /\ Cardinality(Claimants(d)) <= Cardinality(TokenCall)
    BY DEF ClaimsBounded
  <1>2. /\ IsFiniteSet(Claimants(d)')
        /\ Cardinality(Claimants(d)') <= Cardinality(Claimants(d))
    BY <1>1, FS_Subset
  <1>3. /\ Cardinality(TokenCall) \in Nat
        /\ Cardinality(Claimants(d)) \in Nat
        /\ Cardinality(Claimants(d)') \in Nat
    BY <1>1, <1>2, PushAssumption, FS_CardinalityType
  <1> QED
    BY <1>1, <1>2, <1>3

\* Each claimant of a device that nobody holds unasked is named by a request.
LEMMA NamedByRequests ==
  ASSUME NEW f \in [TokenCall -> [user : User, device : Device] \cup {NoCall}],
         NEW d \in Device, NEW T \in SUBSET User,
         \A v \in T : \E c \in TokenCall : f[c] = [user |-> v, device |-> d]
  PROVE  IsFiniteSet(T) /\ Cardinality(T) <= Cardinality(TokenCall)
  <1> DEFINE S == {c \in TokenCall : \E v \in T : f[c] = [user |-> v, device |-> d]}
             g == [c \in S |-> f[c].user]
  <1>1. IsFiniteSet(S) /\ Cardinality(S) <= Cardinality(TokenCall)
    BY PushAssumption, FS_Subset, S \in SUBSET TokenCall
  <1>2. g \in [S -> T]
    <2> SUFFICES ASSUME NEW c \in S PROVE f[c].user \in T
      OBVIOUS
    <2>1. PICK v \in T : f[c] = [user |-> v, device |-> d]
      OBVIOUS
    <2> QED
      BY <2>1
  <1>3. \A v \in T : \E c \in S : g[c] = v
    <2> SUFFICES ASSUME NEW v \in T PROVE \E c \in S : g[c] = v
      OBVIOUS
    <2>1. PICK c \in TokenCall : f[c] = [user |-> v, device |-> d]
      OBVIOUS
    <2>2. c \in S /\ g[c] = v
      BY <2>1
    <2> QED
      BY <2>2
  <1>4. g \in Surjection(S, T)
    BY <1>2, <1>3 DEF Surjection
  <1>5. IsFiniteSet(T) /\ Cardinality(T) <= Cardinality(S)
    BY <1>1, <1>4, FS_Surjection
  <1>6. /\ Cardinality(T) \in Nat /\ Cardinality(S) \in Nat
        /\ Cardinality(TokenCall) \in Nat
    BY <1>1, <1>5, PushAssumption, FS_CardinalityType
  <1> QED
    BY <1>1, <1>5, <1>6

LEMMA ClearTokenKeeps ==
  ASSUME TokenFacts, NEW c \in TokenCall, NEW u \in User, NEW d \in Device, ClearToken(c, u, d)
  PROVE  TokenFacts'
  <1>1. /\ device' = Cleared(u, d)
        /\ taking' = [taking EXCEPT ![c] = [user |-> u, device |-> d]]
        /\ taking[c] = NoCall
        /\ enabled' = enabled
    BY DEF ClearToken
  <1>2. /\ device' \in [User -> Device \cup {NoDevice}]
        /\ \A v \in User : device'[v] = d => v = u
        /\ \A v \in User : device'[v] \in {device[v], NoDevice}
    BY <1>1, PushAssumption DEF Cleared, TokenFacts
  <1>3. /\ taking' \in [TokenCall -> [user : User, device : Device] \cup {NoCall}]
        /\ taking'[c] = [user |-> u, device |-> d]
        /\ \A b \in TokenCall \ {c} : taking'[b] = taking[b]
    BY <1>1 DEF TokenFacts
  <1>4. ASSUME NEW e \in Device
        PROVE  /\ IsFiniteSet(Claimants(e)')
               /\ Cardinality(Claimants(e)') <= Cardinality(TokenCall)
    <2>1. CASE e = d
      <3>1. \A v \in Claimants(d)' : \E b \in TokenCall : taking'[b] = [user |-> v, device |-> d]
        BY <1>2, <1>3 DEF Claimants
      <3>2. Claimants(d)' \in SUBSET User
        BY DEF Claimants
      <3> QED
        BY <1>3, <2>1, <3>1, <3>2, NamedByRequests
    <2>2. CASE e # d
      <3>1. Claimants(e)' \subseteq Claimants(e)
        <4> SUFFICES ASSUME NEW v \in Claimants(e)' PROVE v \in Claimants(e)
          OBVIOUS
        <4>1. v \in User
          BY DEF Claimants
        <4>2. CASE device'[v] = e
          BY <1>2, <4>1, <4>2, PushAssumption DEF Claimants
        <4>3. CASE device'[v] # e
          <5>1. PICK b \in TokenCall : taking'[b] = [user |-> v, device |-> e]
            BY <4>3 DEF Claimants
          <5>2. b # c
            BY <1>3, <2>2, <5>1
          <5> QED
            BY <1>3, <4>1, <5>1, <5>2 DEF Claimants
        <4> QED
          BY <4>2, <4>3
      <3>2. IsFiniteSet(Claimants(e)) /\ Cardinality(Claimants(e)) <= Cardinality(TokenCall)
        BY DEF TokenFacts, ClaimsBounded
      <3>3. /\ IsFiniteSet(Claimants(e)')
            /\ Cardinality(Claimants(e)') <= Cardinality(Claimants(e))
        BY <3>1, <3>2, FS_Subset
      <3>4. /\ Cardinality(TokenCall) \in Nat
            /\ Cardinality(Claimants(e)) \in Nat
            /\ Cardinality(Claimants(e)') \in Nat
        BY <3>2, <3>3, PushAssumption, FS_CardinalityType
      <3> QED
        BY <3>2, <3>3, <3>4
    <2> QED
      BY <2>1, <2>2
  <1>5. ClaimsBounded'
    BY <1>4 DEF ClaimsBounded
  <1> QED
    BY <1>1, <1>2, <1>3, <1>5 DEF TokenFacts

LEMMA WriteTokenKeeps ==
  ASSUME TokenFacts, NEW c \in TokenCall, WriteToken(c)
  PROVE  TokenFacts'
  <1>1. /\ device' = [device EXCEPT ![taking[c].user] = taking[c].device]
        /\ taking' = [taking EXCEPT ![c] = NoCall]
        /\ enabled' = enabled
        /\ taking[c] \in [user : User, device : Device]
    BY DEF WriteToken, TokenFacts
  <1>2. /\ device' \in [User -> Device \cup {NoDevice}]
        /\ \A v \in User : device'[v] = IF v = taking[c].user THEN taking[c].device ELSE device[v]
    BY <1>1 DEF TokenFacts
  <1>3. /\ taking' \in [TokenCall -> [user : User, device : Device] \cup {NoCall}]
        /\ taking'[c] = NoCall
        /\ \A b \in TokenCall \ {c} : taking'[b] = taking[b]
    BY <1>1 DEF TokenFacts
  <1>4. ASSUME NEW e \in Device, NEW v \in Claimants(e)'
        PROVE  v \in Claimants(e)
    <2>1. v \in User
      BY DEF Claimants
    <2>2. CASE device'[v] = e
      <3>1. CASE v = taking[c].user
        <4>1. taking[c] = [user |-> v, device |-> e]
          BY <1>1, <1>2, <2>1, <2>2, <3>1
        <4> QED
          BY <2>1, <4>1 DEF Claimants
      <3>2. CASE v # taking[c].user
        BY <1>2, <2>1, <2>2, <3>2 DEF Claimants
      <3> QED
        BY <3>1, <3>2
    <2>3. CASE device'[v] # e
      <3>1. PICK b \in TokenCall : taking'[b] = [user |-> v, device |-> e]
        BY <2>3 DEF Claimants
      <3>2. b # c
        <4>1. "device" \in DOMAIN [user |-> v, device |-> e] /\ "device" \notin DOMAIN NoCall
          BY DEF NoCall
        <4> QED
          BY <1>3, <3>1, <4>1
      <3> QED
        BY <1>3, <2>1, <3>1, <3>2 DEF Claimants
    <2> QED
      BY <2>2, <2>3
  <1>5. ClaimsBounded'
    BY <1>4, FewerClaimants DEF TokenFacts
  <1> QED
    BY <1>1, <1>2, <1>3, <1>5 DEF TokenFacts

LEMMA ReleaseTokenKeeps ==
  ASSUME TokenFacts, NEW u \in User, ReleaseToken(u)
  PROVE  TokenFacts'
  <1>1. /\ UNCHANGED <<enabled, taking>>
        /\ device' \in [User -> Device \cup {NoDevice}]
        /\ \A v \in User : device'[v] \in {device[v], NoDevice}
    BY DEF ReleaseToken, TokenFacts
  <1>2. \A d \in Device : Claimants(d)' \subseteq Claimants(d)
    BY <1>1, PushAssumption DEF Claimants
  <1>3. ClaimsBounded'
    BY <1>2, FewerClaimants DEF TokenFacts
  <1> QED
    BY <1>1, <1>3 DEF TokenFacts

LEMMA TokenStepKeeps ==
  ASSUME TokenFacts, TokenStep
  PROVE  TokenFacts'
  <1>1. CASE \E u \in User, on \in BOOLEAN : SetPreference(u, on)
    <2>1. /\ UNCHANGED <<device, taking>>
          /\ enabled' \in [User -> BOOLEAN]
      BY <1>1 DEF SetPreference, TokenFacts
    <2>2. \A d \in Device : Claimants(d)' = Claimants(d)
      BY <2>1 DEF Claimants
    <2> QED
      BY <2>1, <2>2 DEF TokenFacts, ClaimsBounded
  <1> QED
    BY <1>1, ClearTokenKeeps, WriteTokenKeeps, ReleaseTokenKeeps DEF TokenStep

\* The requests in flight go down with the process.
LEMMA RestartKeepsTokens ==
  ASSUME TokenFacts, RestartProcess
  PROVE  TokenFacts'
  <1>1. /\ UNCHANGED <<device, enabled>>
        /\ taking' = [c \in TokenCall |-> NoCall]
    BY DEF RestartProcess
  <1>2. \A d \in Device : Claimants(d)' \subseteq Claimants(d)
    <2> SUFFICES ASSUME NEW d \in Device, NEW v \in Claimants(d)' PROVE v \in Claimants(d)
      OBVIOUS
    <2>1. "device" \in DOMAIN [user |-> v, device |-> d] /\ "device" \notin DOMAIN NoCall
      BY DEF NoCall
    <2>2. \A c \in TokenCall : taking'[c] # [user |-> v, device |-> d]
      BY <1>1, <2>1
    <2> QED
      BY <1>1, <2>2 DEF Claimants
  <1> QED
    BY <1>1, <1>2, FewerClaimants DEF TokenFacts

-----------------------------------------------------------------------------
(* The jobs *)

LEMMA Bounds == MaxTries \in Nat /\ MaxTries > 0 /\ MaxRestarts \in Nat /\ LastDay \in Nat
  BY PushAssumption, ReminderAssumption

LEMMA EnqueueKeeps ==
  ASSUME JobFacts, NEW j \in Job, NEW name \in QueueName, NEW u \in User, NEW due \in Nat,
         Enqueue(j, name, u, due), restarts' = restarts
  PROVE  JobFacts'
  <1>1. worker' \subseteq QueueName
    BY DEF Enqueue, JobFacts
  <1>2. CASE j \in DOMAIN queue
    <2>1. queue' = queue /\ sends' = sends
      BY <1>2 DEF Enqueue
    <2> QED
      BY <1>1, <2>1 DEF JobFacts, TriesCounted, SendsBounded
  <1>3. CASE j \notin DOMAIN queue
    <2> DEFINE job == [name |-> name, user |-> u, due |-> due, tries |-> 0,
                       state |-> IF name = "pickup" THEN "delayed" ELSE "waiting",
                       target |-> NoDevice]
    <2>1. /\ queue' = [i \in DOMAIN queue \cup {j} |-> IF i = j THEN job ELSE queue[i]]
          /\ sends' = [sends EXCEPT ![j] = 0]
      BY <1>3 DEF Enqueue
    <2>2. job \in JobType
      BY Bounds DEF JobType
    <2>3. job.tries = 0
      OBVIOUS
    <2> HIDE DEF job
    <2>4. /\ DOMAIN queue' = DOMAIN queue \cup {j}
          /\ queue'[j] = job
          /\ \A i \in DOMAIN queue : queue'[i] = queue[i]
          /\ queue' \in [DOMAIN queue' -> JobType]
      BY <1>3, <2>1, <2>2 DEF JobFacts
    <2>5. /\ sends' \in [Job -> Nat]
          /\ sends'[j] = 0
          /\ \A i \in Job \ {j} : sends'[i] = sends[i]
      BY <2>1 DEF JobFacts
    <2>6. TriesCounted'
      BY <1>3, <2>3, <2>4, <2>5, Bounds DEF TriesCounted, JobFacts
    <2>7. SendsBounded'
      BY <2>5, Bounds DEF SendsBounded, JobFacts
    <2> QED
      BY <1>1, <2>4, <2>5, <2>6, <2>7 DEF JobFacts
  <1> QED
    BY <1>2, <1>3

\* A job that is tried, and pushed at most once in that.
LEMMA ChangedJob ==
  ASSUME JobFacts, NEW j \in DOMAIN queue, NEW job \in JobType,
         queue' = [queue EXCEPT ![j] = job],
         sends' \in [Job -> Nat], \A i \in Job \ {j} : sends'[i] = sends[i],
         sends'[j] <= job.tries + restarts,
         job.state # "failed" => job.tries < MaxTries,
         UNCHANGED <<worker, restarts>>
  PROVE  JobFacts'
  <1>1. /\ DOMAIN queue' = DOMAIN queue
        /\ queue' \in [DOMAIN queue' -> JobType]
        /\ queue'[j] = job
        /\ \A i \in DOMAIN queue \ {j} : queue'[i] = queue[i]
    BY DEF JobFacts
  <1>2. TriesCounted'
    BY <1>1 DEF TriesCounted, JobFacts
  <1>3. j \in Job /\ job.tries \in 0..MaxTries /\ sends'[j] \in Nat /\ restarts \in Nat
    BY Bounds DEF JobFacts, JobType
  <1>4. sends'[j] <= MaxTries + restarts
    BY <1>3, Bounds
  <1>5. SendsBounded'
    BY <1>4 DEF SendsBounded, JobFacts
  <1> QED
    BY <1>1, <1>2, <1>5 DEF JobFacts

LEMMA JobOf ==
  ASSUME JobFacts, NEW j \in DOMAIN queue
  PROVE  /\ j \in Job /\ queue[j] \in JobType
         /\ sends[j] \in Nat /\ restarts \in Nat
         /\ sends[j] <= queue[j].tries + restarts
         /\ queue[j].state # "failed" => queue[j].tries < MaxTries
  BY Bounds DEF JobFacts, TriesCounted

\* The delay of a job passes, or a worker takes it: no attempt is over.
LEMMA WaitingKeeps ==
  ASSUME JobFacts, TokenFacts, NEW j, NEW day, Wake(j, day) \/ TakeJob(j)
  PROVE  JobFacts'
  <1>1. j \in DOMAIN queue
    BY DEF Wake, TakeJob
  <1>2. queue[j].state # "failed" /\ UNCHANGED <<sends, worker, restarts>>
    BY DEF Wake, TakeJob
  <1>3. PICK job \in JobType : /\ queue' = [queue EXCEPT ![j] = job]
                              /\ job.tries = queue[j].tries
    <2>1. CASE Wake(j, day)
      <3> DEFINE job == [queue[j] EXCEPT !.state = "waiting"]
      <3>1. job \in JobType /\ job.tries = queue[j].tries
        BY <1>1, JobOf DEF JobType
      <3>2. queue' = [queue EXCEPT ![j] = job]
        BY <2>1 DEF Wake
      <3> QED
        BY <3>1, <3>2
    <2>2. CASE TakeJob(j)
      <3> DEFINE job == [queue[j] EXCEPT !.state = "active", !.target = Target(queue[j].user)]
      <3>1. Target(queue[j].user) \in Device \cup {NoDevice}
        BY <1>1, JobOf DEF Target, TokenFacts, JobType
      <3>2. job \in JobType /\ job.tries = queue[j].tries
        BY <1>1, <3>1, JobOf DEF JobType
      <3>3. queue' = [queue EXCEPT ![j] = job]
        BY <1>1, <2>2, JobOf DEF TakeJob, JobType
      <3> QED
        BY <3>2, <3>3
    <2> QED
      BY <2>1, <2>2
  <1>4. sends' \in [Job -> Nat]
    BY <1>2 DEF JobFacts
  <1> QED
    BY <1>1, <1>2, <1>3, <1>4, JobOf, ChangedJob

LEMMA FinishJobKeeps ==
  ASSUME JobFacts, NEW j, FinishJob(j)
  PROVE  JobFacts'
  <1>1. /\ j \in DOMAIN queue
        /\ queue[j].state # "failed"
        /\ queue' = [i \in DOMAIN queue \ {j} |-> queue[i]]
        /\ sends' \in {sends, [sends EXCEPT ![j] = @ + 1]}
        /\ UNCHANGED <<worker, restarts>>
    BY DEF FinishJob, Removed
  <1>2. /\ sends' \in [Job -> Nat]
        /\ sends'[j] <= sends[j] + 1
        /\ \A i \in Job \ {j} : sends'[i] = sends[i]
    BY <1>1, JobOf DEF JobFacts
  <1>3. /\ DOMAIN queue' \subseteq Job
        /\ queue' \in [DOMAIN queue' -> JobType]
        /\ DOMAIN queue' = DOMAIN queue \ {j}
        /\ \A i \in DOMAIN queue' : queue'[i] = queue[i]
    BY <1>1 DEF JobFacts
  <1>4. TriesCounted'
    BY <1>1, <1>2, <1>3 DEF JobFacts, TriesCounted
  <1>5. sends'[j] <= MaxTries + restarts
    <2>1. queue[j].tries \in Nat /\ queue[j].tries < MaxTries /\ sends'[j] \in Nat
      BY <1>1, <1>2, JobOf, Bounds DEF JobType
    <2> QED
      BY <1>1, <1>2, <2>1, JobOf, Bounds
  <1>6. SendsBounded'
    BY <1>1, <1>2, <1>5 DEF JobFacts, SendsBounded
  <1> QED
    BY <1>1, <1>2, <1>3, <1>4, <1>6 DEF JobFacts

LEMMA FailJobKeeps ==
  ASSUME JobFacts, NEW j, NEW took \in BOOLEAN, FailJob(j, took)
  PROVE  JobFacts'
  <1>1. /\ j \in DOMAIN queue
        /\ queue[j].state # "failed"
        /\ queue' = [queue EXCEPT ![j] = Retried(queue[j])]
        /\ sends' \in {sends, [sends EXCEPT ![j] = @ + 1]}
        /\ UNCHANGED <<worker, restarts>>
    BY DEF FailJob
  <1>2. /\ sends' \in [Job -> Nat]
        /\ sends'[j] <= sends[j] + 1
        /\ \A i \in Job \ {j} : sends'[i] = sends[i]
    BY <1>1, JobOf DEF JobFacts
  <1>3. queue[j].tries \in Nat /\ queue[j].tries < MaxTries
    BY <1>1, JobOf, Bounds DEF JobType
  <1>4. /\ Retried(queue[j]) \in JobType
        /\ Retried(queue[j]).tries = queue[j].tries + 1
        /\ Retried(queue[j]).state # "failed" => queue[j].tries + 1 < MaxTries
    <2> DEFINE job == queue[j]
    <2>1. job \in JobType
      BY <1>1, JobOf
    <2>2. job.tries + 1 \in 0..MaxTries
      BY <1>3, Bounds
    <2>3. Retried(job) = [job EXCEPT !.tries = job.tries + 1,
                            !.state = IF job.tries + 1 = MaxTries THEN "failed" ELSE "waiting"]
      BY DEF Retried
    <2> HIDE DEF job
    <2>4. /\ Retried(job) \in JobType
          /\ Retried(job).tries = job.tries + 1
          /\ Retried(job).state # "failed" => job.tries + 1 # MaxTries
      BY <2>1, <2>2, <2>3 DEF JobType
    <2> QED
      BY <1>3, <2>2, <2>4, Bounds DEF job
  <1>5. sends'[j] <= Retried(queue[j]).tries + restarts
    BY <1>1, <1>2, <1>3, <1>4, JobOf
  <1> QED
    BY <1>1, <1>2, <1>4, <1>5, ChangedJob

LEMMA RestartKeepsJobs ==
  ASSUME JobFacts, RestartProcess
  PROVE  JobFacts'
  <1>1. /\ restarts < MaxRestarts /\ restarts' = restarts + 1
        /\ worker' = {}
        /\ queue' = [j \in DOMAIN queue |->
                       IF queue[j].state = "active" THEN [queue[j] EXCEPT !.state = "waiting"]
                                                    ELSE queue[j]]
    BY DEF RestartProcess
  <1>2. /\ sends' \in [Job -> Nat]
        /\ \A j \in Job : sends'[j] <= sends[j] + 1
    <2>1. PICK took \in SUBSET Pushing :
            sends' = [j \in Job |-> IF j \in took THEN sends[j] + 1 ELSE sends[j]]
      BY DEF RestartProcess
    <2> QED
      BY <2>1 DEF JobFacts
  <1>3. /\ DOMAIN queue' = DOMAIN queue
        /\ \A j \in DOMAIN queue :
             /\ queue'[j] \in JobType
             /\ queue'[j].tries = queue[j].tries
             /\ queue'[j].state # "failed" => queue[j].state # "failed"
    <2>1. \A job \in JobType : LET again == [job EXCEPT !.state = "waiting"] IN
                               again \in JobType /\ again.tries = job.tries
      BY DEF JobType
    <2>2. ASSUME NEW j \in DOMAIN queue
          PROVE  queue[j] \in JobType
      BY JobOf
    <2> QED
      BY <1>1, <2>1, <2>2
  <1>4. queue' \in [DOMAIN queue' -> JobType]
    BY <1>1, <1>3
  <1>5. restarts' \in 0..MaxRestarts
    BY <1>1, Bounds DEF JobFacts
  <1>6. TriesCounted'
    <2> SUFFICES ASSUME NEW j \in DOMAIN queue
                 PROVE  /\ sends'[j] <= queue'[j].tries + restarts'
                        /\ queue'[j].state # "failed" => queue'[j].tries < MaxTries
      BY <1>3 DEF TriesCounted
    <2>1. queue[j].tries \in Nat /\ sends'[j] \in Nat
      BY <1>2, JobOf, Bounds DEF JobType
    <2> QED
      BY <1>1, <1>2, <1>3, <2>1, JobOf
  <1>7. SendsBounded'
    BY <1>1, <1>2, Bounds DEF SendsBounded, JobFacts
  <1> QED
    BY <1>1, <1>2, <1>3, <1>4, <1>5, <1>6, <1>7 DEF JobFacts

-----------------------------------------------------------------------------
(* The runs *)

LEMMA RunCounts ==
  /\ IsFiniteSet(Run) /\ Cardinality(Run) \in Nat
  /\ \A S \in SUBSET Run : IsFiniteSet(S) /\ Cardinality(S) \in Nat
                           /\ Cardinality(S) <= Cardinality(Run)
  <1>1. IsFiniteSet(Run)
    BY ReminderAssumption, FS_Union DEF Run
  <1> QED
    BY <1>1, FS_Subset, FS_CardinalityType

LEMMA Runners ==
  ASSUME NEW d, NEW kind
  PROVE  /\ Unstamped(d, kind) \in SUBSET Run
         /\ Untold(d, kind) \in SUBSET Run
  BY DEF Unstamped, Untold

LEMMA TaskOf ==
  ASSUME RunFacts, NEW r \in Run, NEW t \in run[r].tasks
  PROVE  /\ t \in Task /\ t.deposit \in Deposit /\ t.kind \in Kind
         /\ t.pc \in {"notify", "stamp"}
         /\ <<t.deposit, t.kind>> \in Deposit \X Kind
  BY DEF RunFacts, RunType, Task

LEMMA RestFacts ==
  ASSUME NEW day \in 0..LastDay, NEW find \in SUBSET Kind, NEW tasks \in SUBSET Task
  PROVE  /\ Rest(day, find, tasks) \in RunType
         /\ Rest(day, find, tasks).find = find
         /\ Rest(day, find, tasks).tasks = tasks
  <1>1. 0 \in 0..LastDay
    BY Bounds
  <1> QED
    BY <1>1 DEF Rest, Idle, RunType

LEMMA ReplaceFacts ==
  ASSUME RunFacts, NEW r \in Run, NEW t \in run[r].tasks, NEW left \in SUBSET Task,
         Replace(r, t, left)
  PROVE  /\ run' \in [Run -> RunType]
         /\ \A q \in Run \ {r} : run'[q] = run[q]
         /\ run'[r].find = run[r].find
         /\ run'[r].tasks = (run[r].tasks \ {t}) \cup left
  <1> DEFINE new == Rest(run[r].day, run[r].find, (run[r].tasks \ {t}) \cup left)
  <1>1. /\ run \in [Run -> RunType]
        /\ run' = [run EXCEPT ![r] = new]
    BY DEF RunFacts, Replace
  <1>2. run[r].day \in 0..LastDay /\ run[r].find \in SUBSET Kind /\ run[r].tasks \in SUBSET Task
    BY <1>1 DEF RunType
  <1>3. (run[r].tasks \ {t}) \cup left \in SUBSET Task
    BY <1>2
  <1>4. /\ new \in RunType
        /\ new.find = run[r].find
        /\ new.tasks = (run[r].tasks \ {t}) \cup left
    BY <1>2, <1>3, RestFacts
  <1> HIDE DEF new
  <1> QED
    BY <1>1, <1>4

\* schedulePickup and the ends of a schedule leave the stamps alone.
LEMMA NewDateKeeps ==
  ASSUME RunFacts, UNCHANGED <<run, told, lost>>,
         pickup' \in [Deposit -> [scheduled : BOOLEAN, date : 0..LastDay, stamped : SUBSET Kind]],
         \A d \in Deposit : pickup'[d].stamped = pickup[d].stamped
  PROVE  RunFacts'
  <1>1. \A d, kind : /\ Unstamped(d, kind)' = Unstamped(d, kind)
                     /\ Untold(d, kind)' = Untold(d, kind)
    BY DEF Unstamped, Untold
  <1>2. StampedWasTold' /\ StampersTold' /\ TasksOnce'
    BY DEF RunFacts, StampedWasTold, StampersTold, TasksOnce
  <1>3. ToldCounted'
    BY <1>1 DEF RunFacts, ToldCounted
  <1> QED
    BY <1>2, <1>3 DEF RunFacts

\* A run that begins has no tasks.
LEMMA BeginKeeps ==
  ASSUME RunFacts, DayFacts, NEW r \in Run, Begin(r)
  PROVE  RunFacts'
  <1> DEFINE new == [day |-> today, find |-> Kind, tasks |-> {}]
  <1>1. /\ run[r] = Idle
        /\ run' = [run EXCEPT ![r] = new]
        /\ UNCHANGED <<pickup, told, lost>>
    BY DEF Begin
  <1>2. new \in RunType /\ new.tasks = {}
    BY DEF DayFacts, RunType
  <1> HIDE DEF new
  <1>3. /\ run' \in [Run -> RunType]
        /\ run'[r].tasks = {} /\ run[r].tasks = {}
        /\ \A q \in Run \ {r} : run'[q] = run[q]
    BY <1>1, <1>2 DEF RunFacts, Idle
  <1>4. \A d, kind : /\ Unstamped(d, kind)' = Unstamped(d, kind)
                     /\ Untold(d, kind)' = Untold(d, kind)
    <2> SUFFICES ASSUME NEW d, NEW kind
                 PROVE  /\ Unstamped(d, kind)' = Unstamped(d, kind)
                        /\ Untold(d, kind)' = Untold(d, kind)
      OBVIOUS
    <2>1. \A q \in Run : run'[q].tasks = run[q].tasks
      BY <1>3
    <2> QED
      BY <2>1 DEF Unstamped, Untold
  <1>5. StampedWasTold' /\ ToldCounted'
    BY <1>1, <1>4 DEF RunFacts, StampedWasTold, ToldCounted
  <1>6. StampersTold' /\ TasksOnce'
    BY <1>1, <1>3 DEF RunFacts, StampersTold, TasksOnce
  <1> QED
    BY <1>1, <1>3, <1>5, <1>6 DEF RunFacts

\* What is found is not stamped, and nobody of this run has told it: the runs
\* that will tell it and those that are to stamp it are different runs.
LEMMA FindKeeps ==
  ASSUME RunFacts, NEW r \in Run, NEW kind, Find(r, kind)
  PROVE  RunFacts'
  <1> DEFINE due   == Due(kind, run[r].day)
             found == [deposit : due, kind : {kind}, pc : {"notify"}]
             new   == Rest(run[r].day, run[r].find \ {kind}, run[r].tasks \cup found)
  <1>1. /\ kind \in run[r].find
        /\ run' = [run EXCEPT ![r] = new]
        /\ UNCHANGED <<pickup, told, lost>>
    BY DEF Find
  <1>2. /\ run \in [Run -> RunType]
        /\ run[r].day \in 0..LastDay /\ run[r].find \in SUBSET Kind
        /\ run[r].tasks \in SUBSET Task /\ kind \in Kind
    BY <1>1 DEF RunFacts, RunType
  <1>3. /\ due \subseteq Deposit
        /\ \A d \in due : kind \notin pickup[d].stamped
    BY DEF Due
  <1>4. /\ found \in SUBSET Task
        /\ \A t \in found : t.deposit \in due /\ t.kind = kind /\ t.pc = "notify"
        /\ \A t, s \in found : t.deposit = s.deposit => s = t
    BY <1>2, <1>3 DEF Task
  <1> HIDE DEF found
  <1>5. /\ new \in RunType
        /\ new.find = run[r].find \ {kind}
        /\ new.tasks = run[r].tasks \cup found
    BY <1>2, <1>4, RestFacts
  <1> HIDE DEF new, due
  <1>6. /\ run' \in [Run -> RunType]
        /\ run'[r].find = run[r].find \ {kind}
        /\ run'[r].tasks = run[r].tasks \cup found
        /\ \A q \in Run \ {r} : run'[q] = run[q]
    BY <1>1, <1>2, <1>5
  <1>7. \A t \in run[r].tasks : t.kind # kind
    BY <1>1 DEF RunFacts, TasksOnce
  <1>8. TasksOnce'
    BY <1>4, <1>6, <1>7 DEF RunFacts, TasksOnce
  <1>9. StampersTold'
    BY <1>1, <1>4, <1>6 DEF RunFacts, StampersTold
  <1>10. StampedWasTold'
    BY <1>1 DEF RunFacts, StampedWasTold
  <1>11. ASSUME NEW d \in Deposit, NEW k \in Kind
         PROVE  /\ Unstamped(d, k)' = Unstamped(d, k)
                /\ (d \in due /\ k = kind) \/ Untold(d, k)' = Untold(d, k)
    BY <1>4, <1>6 DEF Unstamped, Untold
  <1>12. ASSUME NEW d \in due
         PROVE  /\ Untold(d, kind)' \subseteq Untold(d, kind) \cup {r}
                /\ r \notin Unstamped(d, kind)
    BY <1>6, <1>7 DEF Unstamped, Untold
  <1>13. ASSUME NEW q \in Run, NEW d \in Deposit, NEW k \in Kind
         PROVE  q \notin Untold(d, k) \cap Unstamped(d, k)
    BY DEF Untold, Unstamped, RunFacts, TasksOnce
  <1>14. ToldCounted'
    <2> SUFFICES ASSUME NEW d \in Deposit, NEW k \in Kind
                 PROVE  /\ k \notin pickup'[d].stamped =>
                             told'[<<d, k>>] = lost'[<<d, k>>] + Cardinality(Unstamped(d, k)')
                        /\ told'[<<d, k>>] + Cardinality(Untold(d, k)')
                             <= lost'[<<d, k>>] + Cardinality(Run)
      BY DEF ToldCounted
    <2>1. /\ k \notin pickup[d].stamped =>
               told[<<d, k>>] = lost[<<d, k>>] + Cardinality(Unstamped(d, k))
          /\ told[<<d, k>>] + Cardinality(Untold(d, k)) <= lost[<<d, k>>] + Cardinality(Run)
      BY DEF RunFacts, ToldCounted
    <2>2. CASE d \in due /\ k = kind
      <3> DEFINE A == Unstamped(d, kind)
                 B == Untold(d, kind)'
      <3>1. A \in SUBSET Run /\ B \in SUBSET Run
        BY Runners DEF Untold
      <3>2. A \cap B = {}
        BY <1>12, <1>13, <2>2, <3>1
      <3>3. /\ IsFiniteSet(A) /\ IsFiniteSet(B)
            /\ Cardinality(A) \in Nat /\ Cardinality(B) \in Nat
            /\ Cardinality(A \cup B) <= Cardinality(Run)
        BY <3>1, RunCounts
      <3> HIDE DEF A, B
      <3>4. Cardinality(A \cup B) = Cardinality(A) + Cardinality(B)
        BY <3>2, <3>3, FS_Union, FS_EmptySet
      <3>5. told[<<d, k>>] = lost[<<d, k>>] + Cardinality(A)
        BY <1>3, <2>1, <2>2 DEF A
      <3>6. told[<<d, k>>] \in Nat /\ lost[<<d, k>>] \in Nat /\ Cardinality(Run) \in Nat
        BY RunCounts DEF RunFacts
      <3>7. told[<<d, k>>] + Cardinality(B) <= lost[<<d, k>>] + Cardinality(Run)
        BY <3>3, <3>4, <3>5, <3>6
      <3> QED
        BY <1>1, <1>11, <2>1, <2>2, <3>7 DEF B
    <2>3. CASE ~(d \in due /\ k = kind)
      BY <1>1, <1>11, <2>1, <2>3
    <2> QED
      BY <2>2, <2>3
  <1> QED
    BY <1>1, <1>6, <1>8, <1>9, <1>10, <1>14 DEF RunFacts

LEMMA CountedUp ==
  ASSUME NEW f \in [Deposit \X Kind -> Nat], NEW d \in Deposit, NEW k \in Kind, NEW g,
         g = [f EXCEPT ![<<d, k>>] = @ + 1]
  PROVE  /\ g \in [Deposit \X Kind -> Nat]
         /\ g[<<d, k>>] = f[<<d, k>>] + 1
         /\ \A e \in Deposit, l \in Kind :
              /\ <<e, l>> # <<d, k>> => g[<<e, l>>] = f[<<e, l>>]
              /\ f[<<e, l>>] \in Nat /\ g[<<e, l>>] \in Nat
              /\ g[<<e, l>>] >= f[<<e, l>>]
  <1> DEFINE x == <<d, k>>
  <1>1. x \in Deposit \X Kind /\ g = [f EXCEPT ![x] = f[x] + 1]
    OBVIOUS
  <1> HIDE DEF x
  <1>2. /\ g \in [Deposit \X Kind -> Nat]
        /\ g[x] = f[x] + 1
        /\ \A y \in Deposit \X Kind : y # x => g[y] = f[y]
        /\ \A y \in Deposit \X Kind : f[y] \in Nat /\ g[y] \in Nat /\ g[y] >= f[y]
    BY <1>1
  <1>3. ASSUME NEW e \in Deposit, NEW l \in Kind PROVE <<e, l>> \in Deposit \X Kind
    OBVIOUS
  <1> QED
    BY <1>2, <1>3 DEF x

\* A task that ends leaves its run in none of the two sets of its reminder.
LEMMA Dropped ==
  ASSUME RunFacts, NEW r \in Run, NEW t \in run[r].tasks, Replace(r, t, {})
  PROVE  /\ run' \in [Run -> RunType]
         /\ TasksOnce'
         /\ \A q \in Run : run'[q].tasks \subseteq run[q].tasks
         /\ t.pc = "stamp" => r \in Unstamped(t.deposit, t.kind)
         /\ t.pc = "notify" => r \in Untold(t.deposit, t.kind)
         /\ \A d \in Deposit, k \in Kind :
              /\ Unstamped(d, k)' = IF t.deposit = d /\ t.kind = k /\ t.pc = "stamp"
                                      THEN Unstamped(d, k) \ {r} ELSE Unstamped(d, k)
              /\ Untold(d, k)' = IF t.deposit = d /\ t.kind = k /\ t.pc = "notify"
                                   THEN Untold(d, k) \ {r} ELSE Untold(d, k)
  <1>1. /\ run' \in [Run -> RunType]
        /\ \A q \in Run \ {r} : run'[q] = run[q]
        /\ run'[r].find = run[r].find
        /\ run'[r].tasks = run[r].tasks \ {t}
    BY ReplaceFacts
  <1>2. \A s \in run[r].tasks : s.deposit = t.deposit /\ s.kind = t.kind => s = t
    BY DEF RunFacts, TasksOnce
  <1>3. TasksOnce'
    BY <1>1 DEF RunFacts, TasksOnce
  <1>4. /\ t.pc = "stamp" => r \in Unstamped(t.deposit, t.kind)
        /\ t.pc = "notify" => r \in Untold(t.deposit, t.kind)
    BY DEF Unstamped, Untold
  <1>5. ASSUME NEW d \in Deposit, NEW k \in Kind
        PROVE  Unstamped(d, k)' = IF t.deposit = d /\ t.kind = k /\ t.pc = "stamp"
                                    THEN Unstamped(d, k) \ {r} ELSE Unstamped(d, k)
    BY <1>1, <1>2 DEF Unstamped
  <1>6. ASSUME NEW d \in Deposit, NEW k \in Kind
        PROVE  Untold(d, k)' = IF t.deposit = d /\ t.kind = k /\ t.pc = "notify"
                                 THEN Untold(d, k) \ {r} ELSE Untold(d, k)
    BY <1>1, <1>2 DEF Untold
  <1> QED
    BY <1>1, <1>3, <1>4, <1>5, <1>6

LEMMA NotifyKeeps ==
  ASSUME RunFacts, NEW r \in Run, NEW t, Notify(r, t)
  PROVE  RunFacts'
  <1> DEFINE d == t.deposit
             k == t.kind
             s == [t EXCEPT !.pc = "stamp"]
  <1>1. /\ t \in run[r].tasks /\ t.pc = "notify"
        /\ told' = [told EXCEPT ![<<d, k>>] = @ + 1]
        /\ Replace(r, t, {s})
        /\ UNCHANGED <<pickup, lost>>
        /\ t.deposit = d /\ t.kind = k
    BY DEF Notify
  <1>2. /\ d \in Deposit /\ k \in Kind /\ <<d, k>> \in Deposit \X Kind
        /\ s \in Task /\ s.deposit = d /\ s.kind = k /\ s.pc = "stamp"
    <2>1. t \in Task
      BY <1>1, TaskOf
    <2> QED
      BY <2>1 DEF Task
  <1> HIDE DEF d, k, s
  <1>3. /\ run' \in [Run -> RunType]
        /\ \A q \in Run \ {r} : run'[q] = run[q]
        /\ run'[r].find = run[r].find
        /\ run'[r].tasks = (run[r].tasks \ {t}) \cup {s}
    BY <1>1, <1>2, ReplaceFacts
  <1>4. \A x \in run[r].tasks : x.deposit = d /\ x.kind = k => x = t
    BY <1>1 DEF RunFacts, TasksOnce
  <1>5. /\ told' \in [Deposit \X Kind -> Nat]
        /\ told'[<<d, k>>] = told[<<d, k>>] + 1
        /\ \A e \in Deposit, l \in Kind :
             /\ <<e, l>> # <<d, k>> => told'[<<e, l>>] = told[<<e, l>>]
             /\ told[<<e, l>>] \in Nat /\ told'[<<e, l>>] \in Nat
             /\ told'[<<e, l>>] >= told[<<e, l>>]
    <2>1. told \in [Deposit \X Kind -> Nat]
      BY DEF RunFacts
    <2>2. told' = [told EXCEPT ![<<d, k>>] = @ + 1]
      BY <1>1
    <2> QED
      BY ONLY <1>2, <2>1, <2>2, CountedUp
  <1>6. TasksOnce'
    <2>1. \A q \in Run : \A x \in run[q].tasks :
            /\ x.kind \notin run[q].find
            /\ \A y \in run[q].tasks : y.deposit = x.deposit /\ y.kind = x.kind => y = x
      BY DEF RunFacts, TasksOnce
    <2>2. \A q \in Run : run'[q].find = run[q].find
      BY <1>3
    <2>3. \A x \in run'[r].tasks : x.kind \notin run[r].find
      BY <1>1, <1>2, <1>3, <2>1
    <2>4. \A x, y \in run'[r].tasks : y.deposit = x.deposit /\ y.kind = x.kind => y = x
      BY <1>2, <1>3, <1>4, <2>1
    <2> QED
      BY <1>3, <2>1, <2>2, <2>3, <2>4 DEF TasksOnce
  <1>7. StampedWasTold'
    <2> SUFFICES ASSUME NEW e \in Deposit, NEW l \in pickup[e].stamped
                 PROVE  told'[<<e, l>>] > 0
      BY <1>1 DEF StampedWasTold
    <2>1. l \in Kind /\ told[<<e, l>>] > 0
      BY DEF RunFacts, StampedWasTold
    <2> QED
      BY <1>5, <2>1
  <1>8. StampersTold'
    <2> SUFFICES ASSUME NEW q \in Run, NEW x \in run'[q].tasks, x.pc = "stamp"
                 PROVE  told'[<<x.deposit, x.kind>>] > 0
      BY DEF StampersTold
    <2>1. CASE x \in run[q].tasks
      <3>1. /\ x.deposit \in Deposit /\ x.kind \in Kind
            /\ told[<<x.deposit, x.kind>>] > 0
        BY <2>1, TaskOf DEF RunFacts, StampersTold
      <3> QED
        BY <1>5, <3>1
    <2>2. CASE x \notin run[q].tasks
      <3>1. x = s
        BY <1>3, <2>2
      <3>2. told'[<<d, k>>] > 0
        BY <1>2, <1>5
      <3> QED
        BY <1>2, <3>1, <3>2
    <2> QED
      BY <2>1, <2>2
  <1>9. /\ r \notin Unstamped(d, k) /\ r \in Untold(d, k)
        /\ Unstamped(d, k)' = Unstamped(d, k) \cup {r}
        /\ Untold(d, k)' = Untold(d, k) \ {r}
    <2>1. r \notin Unstamped(d, k) /\ r \in Untold(d, k)
      BY <1>1, <1>4 DEF Unstamped, Untold
    <2>2. Unstamped(d, k)' = Unstamped(d, k) \cup {r}
      BY <1>1, <1>2, <1>3, <1>4 DEF Unstamped
    <2>3. Untold(d, k)' = Untold(d, k) \ {r}
      BY <1>1, <1>2, <1>3, <1>4 DEF Untold
    <2> QED
      BY <2>1, <2>2, <2>3
  <1>10. ASSUME NEW e \in Deposit, NEW l \in Kind, <<e, l>> # <<d, k>>
         PROVE  Unstamped(e, l)' = Unstamped(e, l) /\ Untold(e, l)' = Untold(e, l)
    BY <1>1, <1>2, <1>3, <1>10 DEF Unstamped, Untold
  <1>11. ToldCounted'
    <2> SUFFICES ASSUME NEW e \in Deposit, NEW l \in Kind
                 PROVE  /\ l \notin pickup[e].stamped =>
                             told'[<<e, l>>] = lost[<<e, l>>] + Cardinality(Unstamped(e, l)')
                        /\ told'[<<e, l>>] + Cardinality(Untold(e, l)')
                             <= lost[<<e, l>>] + Cardinality(Run)
      BY <1>1 DEF ToldCounted
    <2>1. /\ l \notin pickup[e].stamped =>
               told[<<e, l>>] = lost[<<e, l>>] + Cardinality(Unstamped(e, l))
          /\ told[<<e, l>>] + Cardinality(Untold(e, l)) <= lost[<<e, l>>] + Cardinality(Run)
          /\ told[<<e, l>>] \in Nat /\ lost[<<e, l>>] \in Nat
      BY DEF RunFacts, ToldCounted
    <2>2. CASE <<e, l>> = <<d, k>>
      <3> DEFINE A == Unstamped(d, k)
                 B == Untold(d, k)
      <3>1. IsFiniteSet(A) /\ IsFiniteSet(B) /\ Cardinality(A) \in Nat /\ Cardinality(B) \in Nat
        BY Runners, RunCounts
      <3> HIDE DEF A, B
      <3>2. Cardinality(A \cup {r}) = Cardinality(A) + 1
        BY <1>9, <3>1, FS_AddElement DEF A
      <3>3. Cardinality(B \ {r}) = Cardinality(B) - 1
        BY <1>9, <3>1, FS_RemoveElement DEF B
      <3>4. e = d /\ l = k
        BY <2>2
      <3>5. told'[<<e, l>>] = told[<<e, l>>] + 1
        BY <1>5, <2>2
      <3>6. Unstamped(e, l)' = A \cup {r} /\ Untold(e, l)' = B \ {r}
        BY <1>9, <3>4 DEF A, B
      <3>7. Unstamped(e, l) = A /\ Untold(e, l) = B
        BY <3>4 DEF A, B
      <3>8. Cardinality(Run) \in Nat
        BY RunCounts
      <3> QED
        BY <2>1, <3>1, <3>2, <3>3, <3>5, <3>6, <3>7, <3>8
    <2>3. CASE <<e, l>> # <<d, k>>
      BY <1>5, <1>10, <2>1, <2>3
    <2> QED
      BY <2>2, <2>3
  <1> QED
    BY <1>1, <1>3, <1>5, <1>6, <1>7, <1>8, <1>11 DEF RunFacts

LEMMA StampKeeps ==
  ASSUME RunFacts, NEW r \in Run, NEW t, Stamp(r, t)
  PROVE  RunFacts'
  <1>1. /\ t \in run[r].tasks /\ t.pc = "stamp"
        /\ pickup' = [pickup EXCEPT ![t.deposit].stamped = @ \cup {t.kind}]
        /\ Replace(r, t, {})
        /\ UNCHANGED <<told, lost>>
    BY DEF Stamp
  <1>2. t.deposit \in Deposit /\ t.kind \in Kind
    BY <1>1, TaskOf
  <1>3. /\ pickup' \in [Deposit -> [scheduled : BOOLEAN, date : 0..LastDay, stamped : SUBSET Kind]]
        /\ \A d \in Deposit : pickup'[d].stamped =
              IF d = t.deposit THEN pickup[d].stamped \cup {t.kind} ELSE pickup[d].stamped
    BY <1>1, <1>2 DEF RunFacts
  <1>4. StampedWasTold'
    <2>1. told[<<t.deposit, t.kind>>] > 0
      BY <1>1 DEF RunFacts, StampersTold
    <2>2. ASSUME NEW d \in Deposit, NEW k \in pickup'[d].stamped
          PROVE  k \in pickup[d].stamped \/ (d = t.deposit /\ k = t.kind)
      BY <1>3
    <2>3. \A d \in Deposit : \A k \in pickup[d].stamped : told[<<d, k>>] > 0
      BY DEF RunFacts, StampedWasTold
    <2> QED
      BY <1>1, <2>1, <2>2, <2>3 DEF StampedWasTold
  <1>5. StampersTold'
    BY <1>1, Dropped DEF RunFacts, StampersTold
  <1>6. ToldCounted'
    <2>1. ASSUME NEW d \in Deposit, NEW k \in Kind
          PROVE  /\ Untold(d, k)' = Untold(d, k)
                 /\ k \notin pickup'[d].stamped =>
                      Unstamped(d, k)' = Unstamped(d, k) /\ k \notin pickup[d].stamped
      BY <1>1, <1>2, <1>3, Dropped
    <2> QED
      BY <1>1, <2>1 DEF RunFacts, ToldCounted
  <1> QED
    BY <1>1, <1>3, <1>4, <1>5, <1>6, Dropped DEF RunFacts

LEMMA FailTaskKeeps ==
  ASSUME RunFacts, NEW r \in Run, NEW t, FailTask(r, t)
  PROVE  RunFacts'
  <1>1. /\ t \in run[r].tasks
        /\ lost' = IF t.pc = "stamp" THEN [lost EXCEPT ![<<t.deposit, t.kind>>] = @ + 1] ELSE lost
        /\ Replace(r, t, {})
        /\ UNCHANGED <<pickup, told>>
    BY DEF FailTask, Left
  <1>2. /\ t.deposit \in Deposit /\ t.kind \in Kind /\ t.pc \in {"notify", "stamp"}
        /\ <<t.deposit, t.kind>> \in Deposit \X Kind
    BY <1>1, TaskOf
  <1>3. /\ lost' \in [Deposit \X Kind -> Nat]
        /\ \A d \in Deposit, k \in Kind : lost'[<<d, k>>] =
              IF d = t.deposit /\ k = t.kind /\ t.pc = "stamp"
                THEN lost[<<d, k>>] + 1 ELSE lost[<<d, k>>]
    <2>1. CASE t.pc = "stamp"
      BY <1>1, <1>2, <2>1, CountedUp DEF RunFacts
    <2>2. CASE t.pc # "stamp"
      BY <1>1, <2>2 DEF RunFacts
    <2> QED
      BY <2>1, <2>2
  <1>4. StampedWasTold' /\ StampersTold'
    BY <1>1, Dropped DEF RunFacts, StampedWasTold, StampersTold
  <1>5. ToldCounted'
    <2> SUFFICES ASSUME NEW d \in Deposit, NEW k \in Kind
                 PROVE  /\ k \notin pickup[d].stamped =>
                             told[<<d, k>>] = lost'[<<d, k>>] + Cardinality(Unstamped(d, k)')
                        /\ told[<<d, k>>] + Cardinality(Untold(d, k)')
                             <= lost'[<<d, k>>] + Cardinality(Run)
      BY <1>1 DEF ToldCounted
    <2> DEFINE A == Unstamped(d, k)
               B == Untold(d, k)
    <2>1. /\ k \notin pickup[d].stamped => told[<<d, k>>] = lost[<<d, k>>] + Cardinality(A)
          /\ told[<<d, k>>] + Cardinality(B) <= lost[<<d, k>>] + Cardinality(Run)
          /\ told[<<d, k>>] \in Nat /\ lost[<<d, k>>] \in Nat
      BY DEF RunFacts, ToldCounted
    <2>2. IsFiniteSet(A) /\ IsFiniteSet(B) /\ Cardinality(A) \in Nat /\ Cardinality(B) \in Nat
      BY Runners, RunCounts
    <2>3. /\ A' = IF t.deposit = d /\ t.kind = k /\ t.pc = "stamp" THEN A \ {r} ELSE A
          /\ B' = IF t.deposit = d /\ t.kind = k /\ t.pc = "notify" THEN B \ {r} ELSE B
          /\ t.deposit = d /\ t.kind = k /\ t.pc = "stamp" => r \in A
          /\ t.deposit = d /\ t.kind = k /\ t.pc = "notify" => r \in B
      BY <1>1, Dropped
    <2> HIDE DEF A, B
    <2>4. /\ r \in A => Cardinality(A \ {r}) = Cardinality(A) - 1
          /\ r \in B => Cardinality(B \ {r}) = Cardinality(B) - 1
      BY <2>2, FS_RemoveElement
    <2>5. /\ k \notin pickup[d].stamped => told[<<d, k>>] = lost'[<<d, k>>] + Cardinality(A')
          /\ told[<<d, k>>] + Cardinality(B') <= lost'[<<d, k>>] + Cardinality(Run)
      BY <1>2, <1>3, <2>1, <2>2, <2>3, <2>4, RunCounts
    <2> QED
      BY <2>5 DEF A, B
  <1> QED
    BY <1>1, <1>3, <1>4, <1>5, Dropped DEF RunFacts

LEMMA RestartKeepsRuns ==
  ASSUME RunFacts, Restart
  PROVE  RunFacts'
  <1>1. /\ lost' = [x \in Deposit \X Kind |-> lost[x] + Cardinality(Unstamped(x[1], x[2]))]
        /\ run' = [r \in Run |-> Idle]
        /\ UNCHANGED <<pickup, told>>
    BY DEF Restart
  <1>2. Idle \in RunType /\ Idle.tasks = {}
    BY Bounds DEF Idle, RunType
  <1>3. run' \in [Run -> RunType] /\ \A r \in Run : run'[r].tasks = {}
    BY <1>1, <1>2
  <1>4. /\ lost' \in [Deposit \X Kind -> Nat]
        /\ \A d \in Deposit, k \in Kind :
             lost'[<<d, k>>] = lost[<<d, k>>] + Cardinality(Unstamped(d, k))
    BY <1>1, Runners, RunCounts DEF RunFacts
  <1>5. StampedWasTold' /\ StampersTold' /\ TasksOnce'
    BY <1>1, <1>3 DEF RunFacts, StampedWasTold, StampersTold, TasksOnce
  <1>6. \A d, k : Unstamped(d, k)' = {} /\ Untold(d, k)' = {}
    BY <1>3 DEF Unstamped, Untold
  <1>7. ToldCounted'
    <2> SUFFICES ASSUME NEW d \in Deposit, NEW k \in Kind
                 PROVE  /\ k \notin pickup[d].stamped => told[<<d, k>>] = lost'[<<d, k>>] + 0
                        /\ told[<<d, k>>] + 0 <= lost'[<<d, k>>] + Cardinality(Run)
      BY <1>1, <1>6, FS_EmptySet DEF ToldCounted
    <2>1. /\ k \notin pickup[d].stamped =>
               told[<<d, k>>] = lost[<<d, k>>] + Cardinality(Unstamped(d, k))
          /\ told[<<d, k>>] + Cardinality(Untold(d, k)) <= lost[<<d, k>>] + Cardinality(Run)
          /\ told[<<d, k>>] \in Nat /\ lost[<<d, k>>] \in Nat
      BY DEF RunFacts, ToldCounted
    <2>2. Cardinality(Unstamped(d, k)) \in Nat /\ Cardinality(Untold(d, k)) \in Nat
      BY Runners, RunCounts
    <2> QED
      BY <1>4, <2>1, <2>2, RunCounts
  <1> QED
    BY <1>1, <1>3, <1>4, <1>5, <1>7 DEF RunFacts

-----------------------------------------------------------------------------
(* The invariant *)

LEMMA TokensFrame ==
  ASSUME TokenFacts, UNCHANGED <<device, enabled, taking>>
  PROVE  TokenFacts'
  <1>1. \A d \in Device : Claimants(d)' = Claimants(d)
    BY DEF Claimants
  <1> QED
    BY <1>1 DEF TokenFacts, ClaimsBounded

LEMMA JobsFrame ==
  ASSUME JobFacts, UNCHANGED <<queue, worker, sends, restarts>>
  PROVE  JobFacts'
  BY DEF JobFacts, TriesCounted, SendsBounded

LEMMA RunsFrame ==
  ASSUME RunFacts, UNCHANGED <<pickup, run, told, lost>>
  PROVE  RunFacts'
  <1>1. pickup' \in [Deposit -> [scheduled : BOOLEAN, date : 0..LastDay, stamped : SUBSET Kind]]
    BY DEF RunFacts
  <1>2. \A d \in Deposit : pickup'[d].stamped = pickup[d].stamped
    OBVIOUS
  <1> QED
    BY <1>1, <1>2, NewDateKeeps

LEMMA DayFrame ==
  ASSUME DayFacts, UNCHANGED <<clockVars, faults>>
  PROVE  DayFacts'
  BY DEF DayFacts, clockVars

LEMMA FewElements ==
  ASSUME NEW S, \A x, y \in S : x = y
  PROVE  IsFiniteSet(S) /\ Cardinality(S) \in {0, 1}
  <1>1. CASE S = {}
    BY <1>1, FS_EmptySet
  <1>2. CASE S # {}
    <2>1. PICK x \in S : TRUE
      BY <1>2
    <2>2. S = {x}
      BY <2>1
    <2>3. IsFiniteSet({x}) /\ Cardinality({x}) = 1
      BY FS_Singleton
    <2> QED
      BY <2>2, <2>3
  <1> QED
    BY <1>1, <1>2

LEMMA InitClaims ==
  ASSUME PushInit
  PROVE  ClaimsBounded
  <1> SUFFICES ASSUME NEW d \in Device
               PROVE  /\ IsFiniteSet(Claimants(d))
                      /\ Cardinality(Claimants(d)) <= Cardinality(TokenCall)
    BY DEF ClaimsBounded
  <1>1. Claimants(d) = {u \in User : device[u] = d}
    <2> SUFFICES ASSUME NEW u PROVE \A c \in TokenCall : taking[c] # [user |-> u, device |-> d]
      BY DEF Claimants
    <2>1. "device" \in DOMAIN [user |-> u, device |-> d] /\ "device" \notin DOMAIN NoCall
      BY DEF NoCall
    <2> QED
      BY <2>1 DEF PushInit
  <1>2. \A u, v \in Claimants(d) : u = v
    BY <1>1, PushAssumption DEF PushInit
  <1>3. IsFiniteSet(Claimants(d)) /\ Cardinality(Claimants(d)) \in {0, 1}
    BY <1>2, FewElements
  <1>4. Cardinality(TokenCall) \in Nat /\ Cardinality(TokenCall) # 0
    BY PushAssumption, FS_CardinalityType, FS_EmptySet
  <1>5. \A m \in {0, 1}, n \in Nat : n # 0 => m <= n
    OBVIOUS
  <1> QED
    BY <1>3, <1>4, <1>5

LEMMA InitInv == RemindersInit => RemindersInv
  <1> SUFFICES ASSUME RemindersInit PROVE RemindersInv
    OBVIOUS
  <1> USE DEF RemindersInit, PushInit
  <1>1. DayFacts
    <2>1. 0 \in 0..LastDay /\ 0 \in 0..MaxFaults
      BY ReminderAssumption
    <2> QED
      BY <2>1 DEF DayFacts
  <1>2. JobFacts
    BY Bounds DEF JobFacts, TriesCounted, SendsBounded, NoJobs
  <1>3. RunFacts
    <2>1. \A r \in Run : run[r] = Idle /\ run[r].tasks = {}
      BY DEF Idle
    <2>2. run \in [Run -> RunType]
      BY Bounds DEF RunType, Idle
    <2>3. /\ pickup \in [Deposit -> [scheduled : BOOLEAN, date : 0..LastDay, stamped : SUBSET Kind]]
          /\ \A d \in Deposit : pickup[d].stamped = {}
      BY Bounds
    <2>4. /\ told \in [Deposit \X Kind -> Nat] /\ lost \in [Deposit \X Kind -> Nat]
          /\ \A d \in Deposit, k \in Kind : told[<<d, k>>] = 0 /\ lost[<<d, k>>] = 0
      OBVIOUS
    <2>5. \A d, k : Unstamped(d, k) = {} /\ Untold(d, k) = {}
      BY <2>1 DEF Unstamped, Untold
    <2>6. ToldCounted
      <3>1. Cardinality({}) = 0 /\ Cardinality(Run) \in Nat
        BY FS_EmptySet, RunCounts
      <3> SUFFICES ASSUME NEW d \in Deposit, NEW k \in Kind
                   PROVE  /\ told[<<d, k>>] = lost[<<d, k>>] + Cardinality(Unstamped(d, k))
                          /\ told[<<d, k>>] + Cardinality(Untold(d, k))
                               <= lost[<<d, k>>] + Cardinality(Run)
        BY DEF ToldCounted
      <3>2. /\ told[<<d, k>>] = 0 /\ lost[<<d, k>>] = 0
            /\ Cardinality(Unstamped(d, k)) = 0 /\ Cardinality(Untold(d, k)) = 0
        BY <2>4, <2>5, <3>1
      <3> QED
        BY ONLY <3>1, <3>2
    <2>7. StampedWasTold /\ StampersTold /\ TasksOnce
      BY <2>1, <2>3 DEF StampedWasTold, StampersTold, TasksOnce
    <2> QED
      BY <2>2, <2>3, <2>4, <2>6, <2>7 DEF RunFacts
  <1>4. TokenFacts
    <2>1. ClaimsBounded
      BY InitClaims
    <2> QED
      BY <2>1 DEF TokenFacts
  <1> QED
    BY <1>1, <1>2, <1>3, <1>4, Parts

\* The jobs go their way whatever the reminders do.
LEMMA QueueStepInv ==
  ASSUME RemindersInv, NEW j \in Job, QueueStep(j)
  PROVE  RemindersInv'
  <1> USE Parts
  <1>1. RunFacts' /\ DayFacts'
    BY RunsFrame, DayFrame DEF QueueStep, reminderVars
  <1>2. TokenFacts'
    BY TokensFrame DEF QueueStep, WorkerStep, Wake, TakeJob, FinishJob, FailJob
  <1>3. JobFacts'
    BY WaitingKeeps, FinishJobKeeps, FailJobKeeps DEF QueueStep, WorkerStep
  <1> QED
    BY <1>1, <1>2, <1>3

LEMMA UserStepInv ==
  ASSUME RemindersInv, UserStep, UNCHANGED reminderVars
  PROVE  RemindersInv'
  <1> USE Parts
  <1>1. RunFacts' /\ DayFacts'
    BY RunsFrame, DayFrame DEF reminderVars
  <1>2. CASE TokenStep
    <2>1. TokenFacts'
      BY <1>2, TokenStepKeeps
    <2>2. UNCHANGED <<queue, worker, sends, restarts>>
      BY <1>2 DEF TokenStep, ClearToken, WriteToken, ReleaseToken, SetPreference
    <2> QED
      BY <1>1, <2>1, <2>2, JobsFrame
  <1>3. ASSUME NEW j \in Job, NEW u \in User, PushNotification(j, u)
        PROVE  RemindersInv'
    <2>1. TokenFacts'
      BY <1>3, TokensFrame DEF PushNotification
    <2>2. Enqueue(j, "push", u, 0) /\ restarts' = restarts
      BY <1>3 DEF PushNotification
    <2>3. JobFacts'
      BY <2>2, EnqueueKeeps DEF QueueName
    <2> QED
      BY <1>1, <2>1, <2>3
  <1> QED
    BY <1>2, <1>3 DEF UserStep

LEMMA ScheduleInv ==
  ASSUME RemindersInv, NEW d \in Deposit, NEW date \in 0..LastDay, SchedulePickup(d, date)
  PROVE  RemindersInv'
  <1> USE Parts
  <1>1. TokenFacts' /\ DayFacts'
    BY TokensFrame, DayFrame DEF SchedulePickup
  <1>2. JobFacts'
    <2>1. CASE UNCHANGED <<queue, sends, worker>>
      BY <2>1, JobsFrame DEF SchedulePickup
    <2>2. CASE date > today /\ Enqueue(d, "pickup", Owner[d], date - 1)
      <3>1. date - 1 \in Nat /\ d \in Job /\ Owner[d] \in User /\ "pickup" \in QueueName
        BY <2>2, Bounds, ReminderAssumption DEF DayFacts, QueueName
      <3>2. restarts' = restarts
        BY DEF SchedulePickup
      <3> QED
        BY <2>2, <3>1, <3>2, EnqueueKeeps
    <2> QED
      BY <2>1, <2>2 DEF SchedulePickup
  <1>3. RunFacts'
    <2>1. /\ pickup' \in [Deposit -> [scheduled : BOOLEAN, date : 0..LastDay, stamped : SUBSET Kind]]
          /\ \A e \in Deposit : pickup'[e].stamped = pickup[e].stamped
          /\ UNCHANGED <<run, told, lost>>
      BY DEF SchedulePickup, RunFacts
    <2> QED
      BY <2>1, NewDateKeeps
  <1> QED
    BY <1>1, <1>2, <1>3

LEMMA LeaveInv ==
  ASSUME RemindersInv, NEW d \in Deposit, LeaveSchedule(d)
  PROVE  RemindersInv'
  <1> USE Parts
  <1>1. TokenFacts' /\ JobFacts' /\ DayFacts'
    BY TokensFrame, JobsFrame, DayFrame DEF LeaveSchedule, pushVars
  <1>2. RunFacts'
    <2>1. /\ pickup' \in [Deposit -> [scheduled : BOOLEAN, date : 0..LastDay, stamped : SUBSET Kind]]
          /\ \A e \in Deposit : pickup'[e].stamped = pickup[e].stamped
          /\ UNCHANGED <<run, told, lost>>
      BY DEF LeaveSchedule, RunFacts
    <2> QED
      BY <2>1, NewDateKeeps
  <1> QED
    BY <1>1, <1>2

LEMMA ClockInv ==
  ASSUME RemindersInv, OpenDay \/ EndDay
  PROVE  RemindersInv'
  <1> USE Parts
  <1>1. TokenFacts' /\ JobFacts' /\ RunFacts'
    BY TokensFrame, JobsFrame, RunsFrame DEF OpenDay, EndDay, pushVars
  <1>2. DayFacts'
    <2>1. CASE OpenDay
      <3>1. open' = TRUE /\ UNCHANGED <<driver, today, cronRan, faults>>
        BY <2>1 DEF OpenDay
      <3> QED
        BY <3>1 DEF DayFacts
    <2>2. CASE EndDay
      <3>1. /\ today < LastDay /\ today' = today + 1
            /\ open' = FALSE /\ cronRan' = FALSE /\ UNCHANGED <<driver, faults>>
        BY <2>2 DEF EndDay
      <3>2. today' \in 0..LastDay
        BY <3>1, Bounds DEF DayFacts
      <3> QED
        BY <3>1, <3>2 DEF DayFacts
    <2> QED
      BY <2>1, <2>2
  <1> QED
    BY <1>1, <1>2

LEMMA RestartInv ==
  ASSUME RemindersInv, Restart
  PROVE  RemindersInv'
  <1> USE Parts
  <1>1. TokenFacts' /\ JobFacts' /\ RunFacts'
    BY RestartKeepsTokens, RestartKeepsJobs, RestartKeepsRuns DEF Restart
  <1>2. DayFacts'
    BY ReminderAssumption DEF Restart, DayFacts, clockVars
  <1> QED
    BY <1>1, <1>2

LEMMA RunInv ==
  ASSUME RemindersInv, NEW r \in Run,
         \/ FireCron(r) \/ RunJob(r) \/ RunStep(r)
         \/ \E t \in run[r].tasks : FailTask(r, t)
  PROVE  RemindersInv'
  <1> USE Parts
  <1>1. TokenFacts' /\ JobFacts'
    BY TokensFrame, JobsFrame
    DEF FireCron, RunJob, Begin, RunStep, Find, Notify, Stamp, FailTask, pushVars
  <1>2. RunFacts'
    BY BeginKeeps, FindKeeps, NotifyKeeps, StampKeeps, FailTaskKeeps DEF FireCron, RunJob, RunStep
  <1>3. DayFacts'
    <2>1. UNCHANGED <<driver, today, open>>
      BY DEF FireCron, RunJob, Begin, RunStep, Find, Notify, Stamp, FailTask, clockVars
    <2>2. cronRan' \in {cronRan, TRUE}
      BY DEF FireCron, RunJob, RunStep, Find, Notify, Stamp, FailTask, clockVars
    <2>3. faults' = faults \/ (faults < MaxFaults /\ faults' = faults + 1)
      BY DEF FireCron, RunJob, Begin, RunStep, Find, Notify, Stamp, FailTask
    <2>4. faults' \in 0..MaxFaults
      BY <2>3, ReminderAssumption DEF DayFacts
    <2> QED
      BY <2>1, <2>2, <2>4 DEF DayFacts
  <1> QED
    BY <1>1, <1>2, <1>3

LEMMA NextInv == RemindersInv /\ [SystemNext]_vars => RemindersInv'
  <1> SUFFICES ASSUME RemindersInv, [SystemNext]_vars PROVE RemindersInv'
    OBVIOUS
  <1>1. CASE UNCHANGED vars
    BY <1>1, Parts, TokensFrame, JobsFrame, RunsFrame, DayFrame DEF vars, pushVars, reminderVars
  <1>2. CASE RemindersNext
    BY <1>2, ScheduleInv, LeaveInv, ClockInv, RestartInv, RunInv, QueueStepInv DEF RemindersNext
  <1>3. CASE UserStep /\ UNCHANGED reminderVars
    BY <1>3, UserStepInv
  <1> QED
    BY <1>1, <1>2, <1>3 DEF SystemNext

\* Documents, jobs and runs keep their types; no stamp is set before its
\* notification is stored (PickupReminderScheduler.sendReminder), and the counts
\* of claimants, attempts and notifications hold.
THEOREM RemindersInvariant == RemindersSpec => []RemindersInv
  BY InitInv, NextInv, PTL DEF RemindersSpec

\* A device has no more holders than setPushToken requests that can overlap.
THEOREM HoldersAreFew == RemindersSpec => []HoldersBounded
  <1>1. RemindersInv => HoldersBounded
    <2> SUFFICES ASSUME RemindersInv, NEW d \in Device
                 PROVE  Cardinality({u \in User : device[u] = d}) <= Cardinality(TokenCall)
      BY DEF HoldersBounded
    <2> DEFINE H == {u \in User : device[u] = d}
    <2>1. IsFiniteSet(Claimants(d)) /\ Cardinality(Claimants(d)) <= Cardinality(TokenCall)
      BY Parts DEF TokenFacts, ClaimsBounded
    <2>2. H \subseteq Claimants(d)
      BY DEF Claimants
    <2> HIDE DEF H
    <2>3. IsFiniteSet(H) /\ Cardinality(H) <= Cardinality(Claimants(d))
      BY <2>1, <2>2, FS_Subset
    <2>4. /\ Cardinality(H) \in Nat /\ Cardinality(Claimants(d)) \in Nat
          /\ Cardinality(TokenCall) \in Nat
      BY <2>1, <2>3, PushAssumption, FS_CardinalityType
    <2> QED
      BY <2>1, <2>3, <2>4 DEF H
  <1> QED
    BY <1>1, RemindersInvariant, PTL

\* A job is pushed at most once per attempt and per restart of the process.
THEOREM SendsAreFew == RemindersSpec => []SendsBounded
  <1>1. RemindersInv => SendsBounded
    BY DEF RemindersInv, PushInv
  <1> QED
    BY <1>1, RemindersInvariant, PTL

\* A reminder is told at most once per run that can overlap and once per stamp
\* that a failure or a restart has lost.
THEOREM RepeatsAreFew == RemindersSpec => []RepeatsBounded
  <1>1. RemindersInv => RepeatsBounded
    <2> SUFFICES ASSUME RemindersInv, NEW d \in Deposit, NEW kind \in Kind
                 PROVE  told[<<d, kind>>] <= Cardinality(Run) + lost[<<d, kind>>]
      BY DEF RepeatsBounded
    <2>1. /\ told[<<d, kind>>] + Cardinality(Untold(d, kind)) <= lost[<<d, kind>>] + Cardinality(Run)
          /\ told[<<d, kind>>] \in Nat /\ lost[<<d, kind>>] \in Nat
      BY Parts DEF RunFacts, ToldCounted
    <2>2. Cardinality(Untold(d, kind)) \in Nat /\ Cardinality(Run) \in Nat
      BY Runners, RunCounts
    <2> QED
      BY <2>1, <2>2
  <1> QED
    BY <1>1, RemindersInvariant, PTL
=============================================================================
