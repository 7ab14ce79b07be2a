-------------------------- MODULE MigrationProofs --------------------------
(***************************************************************************)
(* MigrationInv is an inductive invariant of Migration, for any documents, *)
(* any size of a first batch and any number of runs at a time; with it,    *)
(* DepositsInv is one, for the deposits that take the points of an item.   *)
(***************************************************************************)
EXTENDS Migration, FiniteSetTheorems, TLAPS

Job == [phase : 1..6, cleanup : BOOLEAN, apply : BOOLEAN, due : SUBSET Doc,
        found : SUBSET CollectionName, todo : SUBSET Doc, seen : [Doc -> Read]]

LEMMA RunTypes ==
  /\ RunType = {Finished} \cup Job
  /\ Finished \notin Job
  BY DEF RunType, Job, Finished

LEMMA JobOf ==
  ASSUME MigrationTypeOK, NEW r \in Runner, run[r] # Finished
  PROVE  run[r] \in Job
  BY RunTypes DEF MigrationTypeOK

\* What a run updates it has read, in its five or six phases.
LEMMA PhaseFacts ==
  /\ \A cleanup \in BOOLEAN : \A p \in 1..LastPhase(cleanup) :
       Targets(cleanup, p) \subseteq Sources(cleanup, p)
  /\ \A c \in CollectionName : \E p \in 1..5 : c \in Targets(FALSE, p)
  /\ LastPhase(FALSE) = 5 /\ LastPhase(TRUE) = 6
  <1>1. LastPhase(FALSE) = 5 /\ LastPhase(TRUE) = 6
    BY DEF LastPhase
  <1>2. \A cleanup \in BOOLEAN : \A p \in 1..LastPhase(cleanup) :
          Targets(cleanup, p) \subseteq Sources(cleanup, p)
    BY DEF Sources
  <1>3. ASSUME NEW c \in CollectionName
        PROVE  \E p \in 1..5 : c \in Targets(FALSE, p)
    <2>1. /\ Targets(FALSE, 1) = {"users"} /\ Targets(FALSE, 2) = {"admins"}
          /\ Targets(FALSE, 3) = {"states", "areas"} /\ Targets(FALSE, 4) = {"items"}
          /\ Targets(FALSE, 5) = {"depositrequests"}
      BY DEF Targets
    <2>0. /\ 1 \in 1..5 /\ 2 \in 1..5 /\ 3 \in 1..5 /\ 4 \in 1..5 /\ 5 \in 1..5
      OBVIOUS
    <2>2. CASE c = "users"
      BY <2>0, <2>1, <2>2, Zenon
    <2>3. CASE c = "admins"
      BY <2>0, <2>1, <2>3, Zenon
    <2>4. CASE c \in {"states", "areas"}
      BY <2>0, <2>1, <2>4, Zenon
    <2>5. CASE c = "items"
      BY <2>0, <2>1, <2>5, Zenon
    <2>6. CASE c = "depositrequests"
      BY <2>0, <2>1, <2>6, Zenon
    <2> QED
      BY <1>3, <2>2, <2>3, <2>4, <2>5, <2>6 DEF CollectionName
  <1> QED
    BY <1>1, <1>2, <1>3

-----------------------------------------------------------------------------
(* The first batch *)

LEMMA InFacts ==
  ASSUME NEW c, NEW d
  PROVE  /\ d \in In(c) => d \in stored /\ Collection[d] \in c
         /\ d \in In(c) /\ Collection[d] \in CollectionName => d \in In(CollectionName)
         /\ d \in In(CollectionName) /\ Collection[d] \in c => d \in In(c)
  BY DEF In

Ahead(d) == {e \in stored : Collection[e] = Collection[d] /\ Rank[e] < Rank[d]}

\* Who is in the first batch stays there until it is deleted: a deletion only
\* shortens what is ahead of it, and what is created comes behind it.
LEMMA BatchStays ==
  ASSUME MigrationTypeOK, NEW x \in Doc, ServerDeletes(x) \/ ServerCreates(x),
         NEW c, NEW d \in In(c), d \in stored'
  PROVE  d \in In(c)'
  <1>1. /\ d \in stored /\ Collection[d] \in c
        /\ Cardinality(Ahead(d)) < BatchSize
    BY DEF In, Ahead
  <1>2. Cardinality(Ahead(d)') < BatchSize
    <2>1. CASE ServerDeletes(x)
      <3>1. Ahead(d)' \subseteq Ahead(d)
        BY <2>1 DEF ServerDeletes, Ahead
      <3>2. IsFiniteSet(Ahead(d))
        <4>1. Ahead(d) \subseteq Doc
          BY DEF Ahead, MigrationTypeOK
        <4> QED
          BY <4>1, MigrationAssumption, FS_Subset
      <3>3. /\ Cardinality(Ahead(d)') <= Cardinality(Ahead(d))
            /\ IsFiniteSet(Ahead(d)')
        BY <3>1, <3>2, FS_Subset
      <3>4. Cardinality(Ahead(d)') \in Nat /\ Cardinality(Ahead(d)) \in Nat
        BY <3>2, <3>3, FS_CardinalityType
      <3> QED
        BY <1>1, <3>3, <3>4, MigrationAssumption
    <2>2. CASE ServerCreates(x)
      <3>1. /\ stored' = stored \cup {x} /\ x \notin stored
            /\ Collection[d] = Collection[x] => Rank[d] < Rank[x]
        BY <1>1, <2>2 DEF ServerCreates, IsNext
      <3>2. Rank[x] \in Nat /\ Rank[d] \in Nat
        BY <1>1, MigrationAssumption DEF MigrationTypeOK
      <3>3. ~(Collection[x] = Collection[d] /\ Rank[x] < Rank[d])
        BY <3>1, <3>2
      <3>4. Ahead(d)' = Ahead(d)
        BY <3>1, <3>3 DEF Ahead
      <3> QED
        BY <1>1, <3>4
    <2> QED
      BY <2>1, <2>2
  <1> QED
    BY <1>1, <1>2 DEF In, Ahead

-----------------------------------------------------------------------------
(* Documents *)

\* Values under the old name only disappear, under the new one only come; the
\* reference under the old name only goes; what is created is done.
Progress ==
  \A d \in Doc : /\ legacy'[d] \in {"none", legacy[d]}
                 /\ current[d] # Absent => current'[d] # Absent
                 /\ link'[d] = "old" => link[d] = "old"
                 /\ d \in stored' \ stored => d \notin deleted /\ Done(d)'
                 /\ d \in stored \cup deleted => d \in stored' \cup deleted'
                 /\ d \in In(CollectionName) /\ d \in stored' => d \in In(CollectionName)'

LEMMA ProgressKeepsDone ==
  ASSUME Progress, NEW d \in Doc, Done(d)
  PROVE  Done(d)'
  BY DEF Progress, Done

\* All that leaves the documents as they are.
LEMMA SameDocuments ==
  ASSUME UNCHANGED docVars
  PROVE  /\ Progress
         /\ \A c : In(c)' = In(c)
         /\ \A d : Done(d)' = Done(d)
         /\ UNCHANGED <<stored, deleted, legacy, current, link>>
  <1>1. UNCHANGED <<stored, deleted, legacy, current, link>>
    BY DEF docVars
  <1>2. \A c : In(c)' = In(c)
    BY <1>1 DEF In
  <1>3. \A d : Done(d)' = Done(d)
    BY <1>1 DEF Done
  <1> QED
    BY <1>1, <1>2, <1>3 DEF Progress

LEMMA NothingStaysBehind ==
  ASSUME MigrationInv, Progress, UNCHANGED complete
  PROVE  NothingLeftBehind'
  BY ProgressKeepsDone DEF MigrationInv, MigrationTypeOK, NothingLeftBehind

\* The plan of a run that takes no step.
LEMMA PlanStays ==
  ASSUME MigrationInv, MigrationTypeOK', Progress, NEW q \in Runner, run[q] # Finished,
         run'[q] = run[q], early \subseteq early', complete \subseteq complete'
  PROVE  OnPlan(q)'
  <1> DEFINE job == run[q]
  <1>1. OnPlan(q)
    BY DEF MigrationInv, RunsOnPlan
  <1>2. job \in Job
    BY JobOf DEF MigrationInv
  <1>3. job.due \subseteq Doc
    BY <1>2 DEF Job
  <1>4. job.due \subseteq stored' \cup deleted'
    BY <1>1, <1>3 DEF OnPlan, Progress
  <1>5. job.due \cap stored' \subseteq In(CollectionName)'
    <2> SUFFICES ASSUME NEW d \in job.due, d \in stored'
                 PROVE  d \in In(CollectionName)'
      OBVIOUS
    <2>1. d \in stored
      BY <1>1, <1>3 DEF OnPlan, Progress
    <2> QED
      BY <1>1, <1>3, <2>1 DEF OnPlan, Progress
  <1>6. \A d \in job.due \ job.todo : Collection[d] \in Begun(job) => Done(d)'
    BY <1>1, <1>3, ProgressKeepsDone DEF OnPlan
  <1> QED
    BY <1>1, <1>4, <1>5, <1>6 DEF OnPlan

\* The reads of a run that takes no step, if what gets a value is raced.
LEMMA ReadsStay ==
  ASSUME MigrationInv, Progress, NEW q \in Runner, run[q] # Finished, run'[q] # Finished,
         run'[q].seen = run[q].seen, run'[q].todo \subseteq run[q].todo,
         NEW d \in Doc, run[q].seen[d].read,
         current'[d] # current[d] /\ d \in run'[q].todo => <<q, d>> \in raced',
         <<q, d>> \in raced => <<q, d>> \in raced'
  PROVE  /\ d \in stored' \cup deleted'
         /\ legacy'[d] \in {"none", run'[q].seen[d].legacy}
         /\ link'[d] = "old" => run'[q].seen[d].link = "old"
         /\ run'[q].seen[d].current # Absent => current'[d] # Absent
         /\ d \in run'[q].todo /\ current'[d] # run'[q].seen[d].current => <<q, d>> \in raced'
  BY DEF MigrationInv, ReadsHold, Progress

LEMMA InitInv == MigrationInit => MigrationInv
  <1> SUFFICES ASSUME MigrationInit PROVE MigrationInv
    OBVIOUS
  <1>1. MigrationTypeOK
    BY RunTypes DEF MigrationInit, MigrationTypeOK, Value
  <1> QED
    BY <1>1 DEF MigrationInit, MigrationInv, NothingLeftBehind, LostOnlyByEarlyCleanup,
                ReadsHold, RunsOnPlan

-----------------------------------------------------------------------------
(* Runs *)

\* A run that begins a phase has read nothing yet.
LEMMA PhaseType ==
  ASSUME NEW cleanup \in BOOLEAN, NEW apply \in BOOLEAN, NEW p \in 1..6, NEW due \in SUBSET Doc
  PROVE  /\ Phase(cleanup, apply, p, due) \in Job
         /\ Phase(cleanup, apply, p, due) # Finished
         /\ Phase(cleanup, apply, p, due).phase = p
         /\ Phase(cleanup, apply, p, due).cleanup = cleanup
         /\ Phase(cleanup, apply, p, due).apply = apply
         /\ Phase(cleanup, apply, p, due).due = due
         /\ Phase(cleanup, apply, p, due).found = {}
         /\ Phase(cleanup, apply, p, due).todo = {}
         /\ \A d \in Doc : ~Phase(cleanup, apply, p, due).seen[d].read
  <1>1. Unread \in [Doc -> Read]
    BY DEF Unread, Read, Legacy, Value, Link
  <1>2. Phase(cleanup, apply, p, due) \in Job
    BY <1>1 DEF Phase, Job
  <1> QED
    BY <1>2, RunTypes DEF Phase, Unread

\* What a step of one run, r, leaves to prove.
LEMMA StepOfARun ==
  ASSUME MigrationInv, MigrationTypeOK', Progress, NEW r \in Runner,
         \A q \in Runner \ {r} : run'[q] = run[q],
         early \subseteq early', complete \subseteq complete',
         NothingLeftBehind', LostOnlyByEarlyCleanup', ReadsHold',
         run'[r] # Finished => OnPlan(r)'
  PROVE  MigrationInv'
  <1>1. RunsOnPlan'
    <2> SUFFICES ASSUME NEW q \in Runner, run'[q] # Finished PROVE OnPlan(q)'
      BY DEF RunsOnPlan
    <2>1. CASE q = r
      BY <2>1
    <2>2. CASE q # r
      BY <2>2, PlanStays
    <2> QED
      BY <2>1, <2>2
  <1> QED
    BY <1>1 DEF MigrationInv

LEMMA StartKeepsInv ==
  ASSUME MigrationInv, NEW r \in Runner, NEW cleanup \in BOOLEAN, NEW apply \in BOOLEAN,
         Start(r, cleanup, apply)
  PROVE  MigrationInv'
  <1> DEFINE begun == Phase(cleanup, apply, 1, Due(cleanup, apply))
  <1>1. Due(cleanup, apply) \in SUBSET Doc /\ Due(cleanup, apply) \subseteq stored
    BY DEF Due, In, MigrationInv, MigrationTypeOK
  <1>2. /\ begun \in Job /\ begun # Finished /\ begun.phase = 1
        /\ begun.cleanup = cleanup /\ begun.apply = apply
        /\ begun.due = Due(cleanup, apply)
        /\ begun.found = {} /\ begun.todo = {}
        /\ \A d \in Doc : ~begun.seen[d].read
    BY <1>1, PhaseType
  <1>3. /\ run' = [run EXCEPT ![r] = begun]
        /\ run \in [Runner -> RunType]
        /\ early' = IF cleanup /\ apply THEN early \cup (Doc \ complete) ELSE early
        /\ UNCHANGED <<docVars, complete, lost, raced>>
    BY DEF Start, MigrationInv, MigrationTypeOK
  <1>4. run'[r] = begun /\ \A q \in Runner \ {r} : run'[q] = run[q]
    BY <1>3
  <1> HIDE DEF begun
  <1>5. /\ Progress /\ \A c : In(c)' = In(c)
        /\ UNCHANGED <<stored, deleted, legacy, current, link>>
    BY <1>3, SameDocuments
  <1>6. MigrationTypeOK'
    <2>1. run' \in [Runner -> RunType]
      BY <1>2, <1>3, RunTypes
    <2> QED
      BY <1>3, <1>5, <2>1 DEF MigrationInv, MigrationTypeOK
  <1>7. NothingLeftBehind' /\ LostOnlyByEarlyCleanup'
    BY <1>3, <1>5, NothingStaysBehind DEF MigrationInv, LostOnlyByEarlyCleanup
  <1>8. ReadsHold'
    BY <1>2, <1>3, <1>4, <1>5 DEF MigrationInv, ReadsHold
  <1>9. OnPlan(r)'
    <2>1. begun.phase <= LastPhase(begun.cleanup)
      BY <1>2 DEF LastPhase
    <2>2. Begun(begun) = {}
      BY <1>2 DEF Begun
    <2>3. begun.due # {} => begun.apply /\ ~begun.cleanup
      BY <1>2 DEF Due
    <2>4. begun.due \cap stored \subseteq In(CollectionName)
      BY <1>2 DEF Due
    <2>5. begun.apply /\ begun.cleanup => Doc \subseteq early' \cup complete'
      BY <1>2, <1>3
    <2> QED
      BY <1>1, <1>2, <1>4, <1>5, <2>1, <2>2, <2>3, <2>4, <2>5 DEF OnPlan
  <1> QED
    BY <1>3, <1>4, <1>5, <1>6, <1>7, <1>8, <1>9, StepOfARun

LEMMA DieKeepsInv ==
  ASSUME MigrationInv, NEW r \in Runner, Die(r)
  PROVE  MigrationInv'
  <1>1. /\ run' = [run EXCEPT ![r] = Finished]
        /\ run \in [Runner -> RunType]
        /\ raced' = raced \ ({r} \X Doc)
        /\ UNCHANGED <<docVars, complete, early, lost>>
    BY DEF Die, Over, MigrationInv, MigrationTypeOK
  <1>2. run'[r] = Finished /\ \A q \in Runner \ {r} : run'[q] = run[q]
    BY <1>1
  <1>3. /\ Progress
        /\ UNCHANGED <<stored, deleted, legacy, current, link>>
    BY <1>1, SameDocuments
  <1>4. MigrationTypeOK'
    BY <1>1, <1>3, RunTypes DEF MigrationInv, MigrationTypeOK
  <1>5. NothingLeftBehind' /\ LostOnlyByEarlyCleanup'
    BY <1>1, <1>3, NothingStaysBehind DEF MigrationInv, LostOnlyByEarlyCleanup
  <1>6. ReadsHold'
    BY <1>1, <1>2, <1>3 DEF MigrationInv, ReadsHold
  <1> QED
    BY <1>1, <1>2, <1>3, <1>4, <1>5, <1>6, StepOfARun

\* What the find of one collection adds to what a run has read.
LEMMA FindFacts ==
  ASSUME MigrationInv, NEW r \in Runner, NEW c \in CollectionName, Find(r, c)
  PROVE  /\ run[r] \in Job /\ run'[r] \in Job /\ run' \in [Runner -> RunType]
         /\ run'[r].phase = run[r].phase /\ run'[r].cleanup = run[r].cleanup
         /\ run'[r].apply = run[r].apply /\ run'[r].due = run[r].due
         /\ run'[r].found = run[r].found \cup {c}
         /\ run'[r].todo = IF c \in Targets(run[r].cleanup, run[r].phase)
                             THEN run[r].todo \cup In({c}) ELSE run[r].todo
         /\ \A d \in Doc : run'[r].seen[d] = IF d \in In({c}) THEN ReadNow(d) ELSE run[r].seen[d]
         /\ \A q \in Runner \ {r} : run'[q] = run[q]
  <1> DEFINE job  == run[r]
             seen == [d \in Doc |-> IF d \in In({c}) THEN ReadNow(d) ELSE job.seen[d]]
             todo == IF c \in Targets(job.cleanup, job.phase)
                       THEN job.todo \cup In({c}) ELSE job.todo
             read == [job EXCEPT !.found = @ \cup {c}, !.todo = todo, !.seen = seen]
  <1>1. /\ run' = [run EXCEPT ![r] = read]
        /\ run \in [Runner -> RunType]
        /\ job # Finished
    BY DEF Find, MigrationInv, MigrationTypeOK
  <1>2. job \in Job
    BY <1>1, JobOf DEF MigrationInv
  <1>3. seen \in [Doc -> Read]
    <2>1. \A d \in Doc : ReadNow(d) \in Read
      BY DEF ReadNow, Read, MigrationInv, MigrationTypeOK
    <2>2. \A d \in Doc : job.seen[d] \in Read
      BY <1>2 DEF Job
    <2> QED
      BY <2>1, <2>2
  <1>4. todo \in SUBSET Doc
    <2>1. In({c}) \subseteq Doc
      BY DEF In, MigrationInv, MigrationTypeOK
    <2>2. job.todo \subseteq Doc
      BY <1>2 DEF Job
    <2> QED
      BY <2>1, <2>2
  <1> HIDE DEF seen, todo
  <1>5. /\ read \in Job
        /\ read.phase = job.phase /\ read.cleanup = job.cleanup /\ read.apply = job.apply
        /\ read.due = job.due /\ read.found = job.found \cup {c}
        /\ read.todo = todo /\ read.seen = seen
    BY <1>2, <1>3, <1>4 DEF Job
  <1> HIDE DEF read
  <1>6. run'[r] = read /\ \A q \in Runner \ {r} : run'[q] = run[q]
    BY <1>1
  <1>7. run' \in [Runner -> RunType]
    BY <1>1, <1>5, RunTypes
  <1> USE DEF seen, todo
  <1> QED
    BY <1>2, <1>5, <1>6, <1>7

LEMMA BegunFacts ==
  ASSUME NEW job, NEW c
  PROVE  c \in Begun(job) <=> \/ \E p \in 1..(job.phase - 1) : c \in Targets(FALSE, p)
                              \/ c \in Targets(FALSE, job.phase) /\ c \in job.found
  <1> DEFINE past == {Targets(FALSE, p) : p \in 1..(job.phase - 1)}
  <1>1. c \in UNION past <=> \E s \in past : c \in s
    OBVIOUS
  <1>2. (\E s \in past : c \in s) <=> \E p \in 1..(job.phase - 1) : c \in Targets(FALSE, p)
    BY Zenon
  <1>3. Begun(job) = (UNION past) \cup (Targets(FALSE, job.phase) \cap job.found)
    BY Zenon DEF Begun
  <1>4. c \in Begun(job) <=> c \in UNION past \/ c \in Targets(FALSE, job.phase) \cap job.found
    BY <1>3
  <1> HIDE DEF past
  <1> QED
    BY <1>1, <1>2, <1>4, Zenon

LEMMA FindKeepsInv ==
  ASSUME MigrationInv, NEW r \in Runner, NEW c \in CollectionName, Find(r, c)
  PROVE  MigrationInv'
  <1> DEFINE job == run[r]
  <1>1. /\ job # Finished /\ UNCHANGED <<docVars, complete, early, lost, raced>>
        /\ c \in Sources(job.cleanup, job.phase)
    BY DEF Find, historyVars
  <1>2. /\ job \in Job /\ run'[r] \in Job /\ run' \in [Runner -> RunType]
        /\ run'[r].phase = job.phase /\ run'[r].cleanup = job.cleanup
        /\ run'[r].apply = job.apply /\ run'[r].due = job.due
        /\ run'[r].found = job.found \cup {c}
        /\ run'[r].todo = IF c \in Targets(job.cleanup, job.phase)
                            THEN job.todo \cup In({c}) ELSE job.todo
        /\ \A d \in Doc : run'[r].seen[d] = IF d \in In({c}) THEN ReadNow(d) ELSE job.seen[d]
        /\ \A q \in Runner \ {r} : run'[q] = run[q]
    BY FindFacts
  <1>3. /\ Progress /\ \A k : In(k)' = In(k) /\ \A d : Done(d)' = Done(d)
        /\ UNCHANGED <<stored, deleted, legacy, current, link>>
    BY <1>1, SameDocuments
  <1>4. MigrationTypeOK'
    BY <1>1, <1>2, <1>3 DEF MigrationInv, MigrationTypeOK
  <1>5. NothingLeftBehind' /\ LostOnlyByEarlyCleanup'
    BY <1>1, <1>3, NothingStaysBehind DEF MigrationInv, LostOnlyByEarlyCleanup
  <1>6. ReadsHold'
    <2> SUFFICES ASSUME NEW q \in Runner, NEW d \in Doc, run'[q] # Finished, run'[q].seen[d].read
                 PROVE  /\ d \in stored \cup deleted
                        /\ legacy[d] \in {"none", run'[q].seen[d].legacy}
                        /\ link[d] = "old" => run'[q].seen[d].link = "old"
                        /\ run'[q].seen[d].current # Absent => current[d] # Absent
                        /\ d \in run'[q].todo /\ current[d] # run'[q].seen[d].current
                             => <<q, d>> \in raced
      BY <1>1, <1>3 DEF ReadsHold
    <2>1. CASE q = r /\ d \in In({c})
      <3>1. run'[q].seen[d] = ReadNow(d) /\ d \in stored
        BY <1>2, <2>1, InFacts
      <3> QED
        BY <3>1 DEF ReadNow
    <2>2. CASE q = r /\ d \notin In({c})
      <3>1. run'[q].seen[d] = job.seen[d] /\ (d \in run'[q].todo => d \in job.todo)
        BY <1>2, <2>2
      <3>2. job.seen[d].read
        BY <3>1
      <3> QED
        BY <1>1, <2>2, <3>1, <3>2 DEF MigrationInv, ReadsHold
    <2>3. CASE q # r
      BY <1>2, <2>3 DEF MigrationInv, ReadsHold
    <2> QED
      BY <2>1, <2>2, <2>3
  <1>7. OnPlan(r)'
    <2>1. OnPlan(r)
      BY <1>1 DEF MigrationInv, RunsOnPlan
    <2>2. \A d \in run'[r].todo : run'[r].seen[d].read
      <3>1. \A d \in In({c}) : d \in Doc
        BY InFacts DEF MigrationInv, MigrationTypeOK
      <3>2. job.todo \subseteq Doc
        BY <1>2 DEF Job
      <3>3. ASSUME NEW d \in run'[r].todo PROVE run'[r].seen[d].read
        <4>1. d \in Doc
          BY <1>2, <3>1, <3>2, <3>3
        <4>2. CASE d \in In({c})
          <5>1. run'[r].seen[d] = ReadNow(d)
            BY <1>2, <4>1, <4>2
          <5> QED
            BY <5>1 DEF ReadNow
        <4>3. CASE d \notin In({c})
          <5>1. d \in job.todo
            BY <1>2, <3>3, <4>3
          <5> QED
            BY <1>2, <2>1, <4>1, <4>3, <5>1 DEF OnPlan
        <4> QED
          BY <4>2, <4>3
      <3> QED
        BY <3>3
    <2>3. ASSUME NEW d \in job.due, d \notin run'[r].todo, Collection[d] \in Begun(run'[r])
          PROVE  Done(d)
      <3>1. d \notin job.todo /\ ~job.cleanup
        BY <1>2, <2>1, <2>3 DEF OnPlan
      <3>2. CASE Collection[d] \in Begun(job)
        BY <2>1, <3>1, <3>2 DEF OnPlan
      <3>3. CASE Collection[d] \notin Begun(job)
        <4>1. Collection[d] = c /\ c \in Targets(FALSE, job.phase)
          <5>1. ~\E p \in 1..(job.phase - 1) : Collection[d] \in Targets(FALSE, p)
            BY <3>3, BegunFacts
          <5>2. /\ Collection[d] \in Targets(FALSE, job.phase)
                /\ Collection[d] \in job.found \cup {c}
            BY <1>2, <2>3, <5>1, BegunFacts
          <5>3. Collection[d] \notin job.found
            BY <3>3, <5>2, BegunFacts
          <5> QED
            BY <5>2, <5>3
        <4>2. job.cleanup = FALSE
          BY <1>2, <3>1 DEF Job
        <4>3. d \notin In({c})
          BY <1>2, <2>3, <4>1, <4>2
        <4>4. d \notin stored
          BY <2>1, <4>1, <4>3, InFacts DEF OnPlan
        <4> QED
          BY <4>4 DEF Done
      <3> QED
        BY <3>2, <3>3
    <2>4. run'[r].found \subseteq Sources(job.cleanup, job.phase)
      BY <1>1, <1>2, <2>1 DEF OnPlan
    <2> QED
      BY <1>1, <1>2, <1>3, <2>1, <2>2, <2>3, <2>4 DEF OnPlan
  <1> QED
    BY <1>1, <1>2, <1>3, <1>4, <1>5, <1>6, <1>7, StepOfARun

\* At its end all that was due in a phase, and before, is done.
LEMMA DueIsDone ==
  ASSUME MigrationInv, NEW r \in Runner, run[r] # Finished, HasRead(run[r]), run[r].todo = {},
         NEW d \in run[r].due, NEW p \in 1..run[r].phase, Collection[d] \in Targets(FALSE, p)
  PROVE  Done(d)
  <1> DEFINE job == run[r]
  <1>1. OnPlan(r) /\ job \in Job
    BY JobOf DEF MigrationInv, RunsOnPlan
  <1>2. job.cleanup = FALSE /\ job.phase \in 1..LastPhase(job.cleanup)
    BY <1>1 DEF OnPlan, Job
  <1>3. Targets(FALSE, job.phase) \subseteq job.found
    BY <1>2, PhaseFacts DEF HasRead
  <1>4. Collection[d] \in Begun(job)
    <2>1. CASE p = job.phase
      BY <1>3, <2>1, BegunFacts
    <2>2. CASE p # job.phase
      <3>1. p \in 1..(job.phase - 1)
        BY <1>2, <2>2
      <3> QED
        BY <3>1 DEF Begun
    <2> QED
      BY <2>1, <2>2
  <1> QED
    BY <1>1, <1>4 DEF OnPlan

LEMMA NextPhaseKeepsInv ==
  ASSUME MigrationInv, NEW r \in Runner, NextPhase(r)
  PROVE  MigrationInv'
  <1> DEFINE job   == run[r]
             begun == Phase(job.cleanup, job.apply, job.phase + 1, job.due)
  <1>1. /\ job # Finished /\ job.todo = {} /\ HasRead(job)
        /\ run \in [Runner -> RunType]
        /\ raced' = raced \ ({r} \X Doc)
        /\ UNCHANGED <<docVars, early, lost>>
    BY DEF NextPhase, Over, MigrationInv, MigrationTypeOK
  <1>2. OnPlan(r) /\ job \in Job
    BY <1>1, JobOf DEF MigrationInv, RunsOnPlan
  <1>3. /\ job.phase \in 1..6 /\ job.cleanup \in BOOLEAN /\ job.apply \in BOOLEAN
        /\ job.due \subseteq Doc /\ job.phase <= LastPhase(job.cleanup)
    BY <1>2 DEF Job, OnPlan
  <1>4. /\ Progress /\ \A k : In(k)' = In(k) /\ \A d : Done(d)' = Done(d)
        /\ UNCHANGED <<stored, deleted, legacy, current, link>>
    BY <1>1, SameDocuments
  <1>5. LostOnlyByEarlyCleanup'
    BY <1>1 DEF MigrationInv, LostOnlyByEarlyCleanup
  <1>6. CASE job.phase < LastPhase(job.cleanup)
    <2>1. /\ run' = [run EXCEPT ![r] = begun]
          /\ complete' = complete
      BY <1>6 DEF NextPhase
    <2>2. job.phase + 1 \in 1..6 /\ job.phase + 1 <= LastPhase(job.cleanup)
      BY <1>3, <1>6 DEF LastPhase
    <2>3. /\ begun \in Job /\ begun # Finished /\ begun.phase = job.phase + 1
          /\ begun.cleanup = job.cleanup /\ begun.apply = job.apply
          /\ begun.due = job.due /\ begun.found = {} /\ begun.todo = {}
          /\ \A d \in Doc : ~begun.seen[d].read
      BY <1>3, <2>2, PhaseType
    <2>4. run'[r] = begun /\ \A q \in Runner \ {r} : run'[q] = run[q]
      BY <1>1, <2>1
    <2> HIDE DEF begun
    <2>5. MigrationTypeOK'
      BY <1>1, <1>4, <2>1, <2>3, RunTypes DEF MigrationInv, MigrationTypeOK
    <2>6. NothingLeftBehind'
      BY <1>4, <2>1, NothingStaysBehind
    <2>7. ReadsHold'
      BY <1>1, <1>4, <2>3, <2>4 DEF MigrationInv, ReadsHold
    <2>8. OnPlan(r)'
      <3>1. ASSUME NEW d \in job.due, Collection[d] \in Begun(begun)
            PROVE  Done(d)
        <4>1. PICK p \in 1..job.phase : Collection[d] \in Targets(FALSE, p)
          <5>1. (job.phase + 1) - 1 = job.phase
            BY <1>3
          <5> QED
            BY <2>3, <3>1, <5>1 DEF Begun
        <4> QED
          BY <1>1, <4>1, DueIsDone
      <3>2. /\ begun.phase <= LastPhase(begun.cleanup)
            /\ \A d \in begun.due : Collection[d] \in Begun(begun) => Done(d)
        BY <2>2, <2>3, <3>1
      <3> QED
        BY <1>1, <1>2, <1>4, <2>1, <2>3, <2>4, <3>2 DEF OnPlan
    <2> QED
      BY <1>1, <1>4, <1>5, <2>1, <2>4, <2>5, <2>6, <2>7, <2>8, StepOfARun
  <1>7. CASE ~(job.phase < LastPhase(job.cleanup))
    <2>1. /\ run' = [run EXCEPT ![r] = Finished]
          /\ complete' = complete \cup job.due
      BY <1>7 DEF NextPhase
    <2>2. run'[r] = Finished /\ \A q \in Runner \ {r} : run'[q] = run[q]
      BY <1>1, <2>1
    <2>3. MigrationTypeOK'
      BY <1>1, <1>3, <1>4, <2>1, RunTypes DEF MigrationInv, MigrationTypeOK
    <2>4. ASSUME NEW d \in job.due PROVE Done(d)
      <3>1. job.cleanup = FALSE
        BY <1>2, <1>3, <2>4 DEF OnPlan
      <3>2. job.phase = 5
        BY <1>3, <1>7, <3>1 DEF LastPhase
      <3>3. Collection[d] \in CollectionName
        BY <1>3, MigrationAssumption
      <3>4. PICK p \in 1..5 : Collection[d] \in Targets(FALSE, p)
        BY <3>3, PhaseFacts
      <3> QED
        BY <1>1, <3>2, <3>4, DueIsDone
    <2>5. NothingLeftBehind'
      BY <1>4, <2>1, <2>4 DEF MigrationInv, NothingLeftBehind
    <2>6. ReadsHold'
      BY <1>1, <1>4, <2>2 DEF MigrationInv, ReadsHold
    <2> QED
      BY <1>1, <1>4, <1>5, <2>1, <2>2, <2>3, <2>5, <2>6, StepOfARun
  <1> QED
    BY <1>6, <1>7

-----------------------------------------------------------------------------
(* One document *)

\* A run that has gone through a document has the same reads as before.
LEMMA PassedFacts ==
  ASSUME MigrationTypeOK, NEW r \in Runner, NEW d \in Doc, run[r] # Finished, Passed(r, d)
  PROVE  /\ run'[r] \in Job /\ run'[r] # Finished
         /\ run'[r].phase = run[r].phase /\ run'[r].cleanup = run[r].cleanup
         /\ run'[r].apply = run[r].apply /\ run'[r].due = run[r].due
         /\ run'[r].found = run[r].found /\ run'[r].seen = run[r].seen
         /\ run'[r].todo = run[r].todo \ {d}
         /\ \A q \in Runner \ {r} : run'[q] = run[q]
         /\ run' \in [Runner -> RunType]
  <1>1. run \in [Runner -> RunType] /\ run[r] \in Job
    BY JobOf DEF MigrationTypeOK
  <1> DEFINE passed == [run[r] EXCEPT !.todo = @ \ {d}]
  <1>2. run' = [run EXCEPT ![r] = passed]
    BY DEF Passed
  <1>3. /\ passed \in Job
        /\ passed.phase = run[r].phase /\ passed.cleanup = run[r].cleanup
        /\ passed.apply = run[r].apply /\ passed.due = run[r].due
        /\ passed.found = run[r].found /\ passed.seen = run[r].seen
        /\ passed.todo = run[r].todo \ {d}
    BY <1>1 DEF Job
  <1> HIDE DEF passed
  <1>4. passed # Finished
    BY <1>3, RunTypes
  <1>5. run'[r] = passed /\ \A q \in Runner \ {r} : run'[q] = run[q]
    BY <1>1, <1>2
  <1>6. run' \in [Runner -> RunType]
    BY <1>1, <1>2, <1>3, RunTypes
  <1> QED
    BY <1>3, <1>4, <1>5, <1>6

\* Going through a document keeps a run on its plan, if what was due is then done.
LEMMA PassingKeepsPlan ==
  ASSUME MigrationInv, MigrationTypeOK', Progress, UNCHANGED <<stored, deleted, complete, early>>,
         NEW r \in Runner, NEW d \in Doc, run[r] # Finished, Passed(r, d),
         run[r].apply /\ ~run[r].cleanup => Done(d)'
  PROVE  OnPlan(r)'
  <1> DEFINE job == run[r]
  <1>1. /\ run'[r].phase = job.phase /\ run'[r].cleanup = job.cleanup
        /\ run'[r].apply = job.apply /\ run'[r].due = job.due
        /\ run'[r].found = job.found /\ run'[r].seen = job.seen
        /\ run'[r].todo = job.todo \ {d}
    BY PassedFacts DEF MigrationInv
  <1>2. OnPlan(r) /\ job.due \subseteq Doc
    BY JobOf DEF MigrationInv, RunsOnPlan, Job
  <1>3. In(CollectionName)' = In(CollectionName)
    BY DEF In
  <1>4. ASSUME NEW e \in job.due, e \notin run'[r].todo, Collection[e] \in Begun(run'[r])
        PROVE  Done(e)'
    <2>1. CASE e = d
      BY <1>2, <2>1 DEF OnPlan
    <2>2. CASE e # d
      <3>1. e \notin job.todo
        BY <1>1, <1>4, <2>2
      <3>2. Collection[e] \in Begun(job)
        BY <1>1, <1>4, BegunFacts
      <3> QED
        BY <1>2, <3>1, <3>2, ProgressKeepsDone DEF OnPlan
    <2> QED
      BY <2>1, <2>2
  <1> QED
    BY <1>1, <1>2, <1>3, <1>4 DEF OnPlan

\* What a run writes is a value, that of the new name if there is one; it writes one
\* to what has a value under the old name, or refers to an item that has.
LEMMA DesiredFacts ==
  ASSUME MigrationInv, NEW r \in Runner, NEW d \in Doc, run[r] # Finished, d \in run[r].todo
  PROVE  /\ Desired(d, run[r].seen) \in Value
         /\ run[r].seen[d].read
         /\ run[r].seen[d].current # Absent
              => Desired(d, run[r].seen) = run[r].seen[d].current
         /\ run[r].seen[d].legacy = "valid" => Desired(d, run[r].seen) # Absent
         /\ d \in DOMAIN ItemOf /\ run[r].seen[d].link # "none"
              /\ run[r].seen[ItemOf[d]].legacy = "valid" => Desired(d, run[r].seen) # Absent
  <1>1. run[r] \in Job
    BY JobOf DEF MigrationInv
  <1>2. \A e \in Doc : run[r].seen[e] \in Read
    BY <1>1 DEF Job
  <1>3. \A e \in Doc : Own(e, run[r].seen[e]) \in Value
    BY <1>2 DEF Own, FirstOf, Converted, Value, Read
  <1>4. d \in DOMAIN ItemOf => ItemOf[d] \in Doc
    BY MigrationAssumption
  <1>5. Absent \in Value /\ \A e \in Doc : e # Absent
    BY MigrationAssumption DEF Value
  <1>6. Desired(d, run[r].seen) \in Value
    BY <1>3, <1>4, <1>5 DEF Desired, FirstOf
  <1>7. run[r].seen[d].current # Absent => Desired(d, run[r].seen) = run[r].seen[d].current
    BY DEF Desired, Own, FirstOf
  <1>8. \A e \in Doc : run[r].seen[e].legacy = "valid" => Own(e, run[r].seen[e]) # Absent
    BY <1>5 DEF Own, FirstOf, Converted
  <1>9. run[r].seen[d].read
    BY DEF MigrationInv, RunsOnPlan, OnPlan
  <1> QED
    BY <1>4, <1>6, <1>7, <1>8, <1>9 DEF Desired, FirstOf

\* What a migration of d changes: only its new names, to what had to be written.
LEMMA MigrateFacts ==
  ASSUME MigrationInv, NEW r \in Runner, NEW d \in Doc, Migrate(r, d)
  PROVE  /\ run[r] # Finished /\ ~run[r].cleanup /\ d \in run[r].todo /\ HasRead(run[r])
         /\ Passed(r, d)
         /\ UNCHANGED <<stored, deleted, legacy, complete, early, lost>>
         /\ current' \in [Doc -> Value] /\ link' \in [Doc -> Link]
         /\ \A e \in Doc : e # d => current'[e] = current[e] /\ link'[e] = link[e]
         /\ current[d] # Absent => current'[d] # Absent
         /\ link'[d] \in {link[d], "new"}
         /\ link'[d] # link[d] => run[r].seen[d].link = "old"
         /\ run[r].apply /\ d \in stored =>
              /\ link'[d] # "old"
              /\ Desired(d, run[r].seen) # Absent => current'[d] # Absent
         /\ raced \subseteq raced' /\ raced' \subseteq Runner \X Doc
         /\ current'[d] # current[d] => Overtaken(d, {r}) \subseteq raced'
  <1> DEFINE job     == run[r]
             value   == Desired(d, job.seen)
             updates == job.apply /\ d \in stored
             sets    == updates /\ value \notin {Absent, job.seen[d].current}
  <1>1. /\ job # Finished /\ ~job.cleanup /\ d \in job.todo /\ HasRead(job)
        /\ current' = IF sets THEN [current EXCEPT ![d] = value] ELSE current
        /\ link' = IF updates /\ job.seen[d].link = "old" THEN [link EXCEPT ![d] = "new"] ELSE link
        /\ raced' = IF sets THEN raced \cup Overtaken(d, {r}) ELSE raced
        /\ Passed(r, d)
        /\ UNCHANGED <<stored, deleted, legacy, complete, early, lost>>
    BY DEF Migrate
  <1>2. value \in Value /\ job.seen[d].read
    BY <1>1, DesiredFacts
  <1>3. current \in [Doc -> Value] /\ link \in [Doc -> Link] /\ raced \subseteq Runner \X Doc
    BY DEF MigrationInv, MigrationTypeOK
  <1>4. /\ job.seen[d].current # Absent => current[d] # Absent
        /\ link[d] = "old" => job.seen[d].link = "old"
    BY <1>1, <1>2 DEF MigrationInv, ReadsHold
  <1> HIDE DEF value
  <1>5. /\ current' \in [Doc -> Value]
        /\ \A e \in Doc : e # d => current'[e] = current[e]
        /\ current'[d] = IF sets THEN value ELSE current[d]
    BY <1>1, <1>2, <1>3
  <1>6. /\ link' \in [Doc -> Link]
        /\ \A e \in Doc : e # d => link'[e] = link[e]
        /\ link'[d] = IF updates /\ job.seen[d].link = "old" THEN "new" ELSE link[d]
    BY <1>1, <1>3 DEF Link
  <1>7. current[d] # Absent => current'[d] # Absent
    BY <1>5
  <1>8. updates => link'[d] # "old" /\ (value # Absent => current'[d] # Absent)
    BY <1>4, <1>5, <1>6
  <1>9. /\ raced \subseteq raced' /\ raced' \subseteq Runner \X Doc
        /\ current'[d] # current[d] => Overtaken(d, {r}) \subseteq raced'
    <2>1. Overtaken(d, {r}) \subseteq Runner \X Doc
      BY DEF Overtaken
    <2> QED
      BY <1>1, <1>3, <1>5, <2>1
  <1>10. link'[d] \in {link[d], "new"} /\ (link'[d] # link[d] => job.seen[d].link = "old")
    BY <1>6
  <1> USE DEF value
  <1> QED
    BY <1>1, <1>5, <1>6, <1>7, <1>8, <1>9, <1>10

LEMMA MigrateKeepsInv ==
  ASSUME MigrationInv, NEW r \in Runner, NEW d \in Doc, Migrate(r, d)
  PROVE  MigrationInv'
  <1> DEFINE job == run[r]
  <1>1. /\ job # Finished /\ ~job.cleanup /\ d \in job.todo /\ Passed(r, d)
        /\ UNCHANGED <<stored, deleted, legacy, complete, early, lost>>
        /\ current' \in [Doc -> Value] /\ link' \in [Doc -> Link]
        /\ \A e \in Doc : e # d => current'[e] = current[e] /\ link'[e] = link[e]
        /\ current[d] # Absent => current'[d] # Absent
        /\ link'[d] \in {link[d], "new"}
        /\ job.apply /\ d \in stored => link'[d] # "old"
        /\ job.apply /\ d \in stored => (Desired(d, job.seen) # Absent => current'[d] # Absent)
        /\ raced \subseteq raced' /\ raced' \subseteq Runner \X Doc
        /\ current'[d] # current[d] => Overtaken(d, {r}) \subseteq raced'
    BY MigrateFacts
  <1>2. /\ run'[r] # Finished /\ run'[r].seen = job.seen /\ run'[r].todo = job.todo \ {d}
        /\ \A q \in Runner \ {r} : run'[q] = run[q]
        /\ run' \in [Runner -> RunType]
    BY <1>1, PassedFacts DEF MigrationInv
  <1>3. MigrationTypeOK'
    BY <1>1, <1>2 DEF MigrationInv, MigrationTypeOK
  <1>4. In(CollectionName)' = In(CollectionName)
    BY <1>1 DEF In
  <1>5. Progress
    BY <1>1, <1>4 DEF Progress
  <1>6. job.apply => Done(d)'
    <2> SUFFICES ASSUME job.apply, d \in stored, legacy[d] = "valid" PROVE current'[d] # Absent
      BY <1>1 DEF Done
    <2>1. job.seen[d].read /\ (job.seen[d].legacy = "valid" => Desired(d, job.seen) # Absent)
      BY <1>1, DesiredFacts
    <2>2. legacy[d] \in {"none", job.seen[d].legacy}
      BY <1>1, <2>1 DEF MigrationInv, ReadsHold
    <2> QED
      BY <1>1, <2>1, <2>2
  <1>7. OnPlan(r)'
    BY <1>1, <1>3, <1>5, <1>6, PassingKeepsPlan
  <1>8. NothingLeftBehind' /\ LostOnlyByEarlyCleanup'
    BY <1>1, <1>5, NothingStaysBehind DEF MigrationInv, LostOnlyByEarlyCleanup
  <1>9. ReadsHold'
    <2> SUFFICES ASSUME NEW q \in Runner, NEW e \in Doc, run'[q] # Finished, run'[q].seen[e].read
                 PROVE  /\ e \in stored' \cup deleted'
                        /\ legacy'[e] \in {"none", run'[q].seen[e].legacy}
                        /\ link'[e] = "old" => run'[q].seen[e].link = "old"
                        /\ run'[q].seen[e].current # Absent => current'[e] # Absent
                        /\ e \in run'[q].todo /\ current'[e] # run'[q].seen[e].current
                             => <<q, e>> \in raced'
      BY DEF ReadsHold
    <2>1. /\ run[q] # Finished /\ run'[q].seen = run[q].seen /\ run[q].seen[e].read
          /\ run'[q].todo \subseteq run[q].todo
          /\ q = r => d \notin run'[q].todo
      BY <1>1, <1>2
    <2>2. current'[e] # current[e] /\ e \in run'[q].todo => <<q, e>> \in raced'
      <3> SUFFICES ASSUME current'[e] # current[e], e \in run'[q].todo PROVE <<q, e>> \in raced'
        OBVIOUS
      <3>1. e = d /\ q # r
        BY <1>1, <2>1
      <3>2. <<q, e>> \in Overtaken(d, {r})
        BY <2>1, <3>1 DEF Overtaken
      <3> QED
        BY <1>1, <3>1, <3>2
    <2> QED
      BY <1>1, <1>5, <2>1, <2>2, ReadsStay
  <1> QED
    BY <1>1, <1>2, <1>3, <1>5, <1>7, <1>8, <1>9, StepOfARun

\* What a cleanup of d changes: it only removes old names, and who loses by it was
\* not complete when a cleanup began.
LEMMA CleanUpFacts ==
  ASSUME MigrationInv, NEW r \in Runner, NEW d \in Doc, CleanUp(r, d)
  PROVE  /\ run[r] # Finished /\ run[r].cleanup /\ d \in run[r].todo /\ Passed(r, d)
         /\ UNCHANGED <<stored, deleted, current, complete, early, raced>>
         /\ legacy' \in [Doc -> Legacy] /\ link' \in [Doc -> Link]
         /\ \A e \in Doc : legacy'[e] \in {"none", legacy[e]}
         /\ \A e \in Doc : link'[e] # link[e] => link'[e] = "none" /\ e \in early
         /\ lost' \subseteq Doc /\ lost' \subseteq early
  <1> DEFINE job     == run[r]
             updates == job.apply /\ d \in stored
             removes == updates /\ Collection[d] # "depositrequests" /\ job.seen[d].legacy # "none"
             unlinks == updates /\ job.seen[d].link = "old" /\ link[d] = "old"
             loses   == unlinks \/ (removes /\ legacy[d] = "valid" /\ current[d] = Absent)
  <1>1. /\ job # Finished /\ job.cleanup /\ d \in job.todo
        /\ legacy' = IF removes THEN [legacy EXCEPT ![d] = "none"] ELSE legacy
        /\ link' = IF unlinks THEN [link EXCEPT ![d] = "none"] ELSE link
        /\ lost' = IF loses THEN lost \cup {d} ELSE lost
        /\ Passed(r, d)
        /\ UNCHANGED <<stored, deleted, current, complete, early, raced>>
    BY DEF CleanUp
  <1>2. /\ legacy \in [Doc -> Legacy] /\ link \in [Doc -> Link]
        /\ lost \subseteq Doc /\ lost \subseteq early
    BY DEF MigrationInv, MigrationTypeOK, LostOnlyByEarlyCleanup
  <1>3. ASSUME loses PROVE d \in early
    <2>1. Doc \subseteq early \cup complete
      BY <1>1, <1>3 DEF MigrationInv, RunsOnPlan, OnPlan
    <2>2. ~Done(d)
      BY <1>3 DEF Done
    <2> QED
      BY <2>1, <2>2 DEF MigrationInv, NothingLeftBehind
  <1>4. /\ legacy' \in [Doc -> Legacy]
        /\ \A e \in Doc : legacy'[e] \in {"none", legacy[e]}
    BY <1>1, <1>2 DEF Legacy
  <1>5. /\ link' \in [Doc -> Link]
        /\ \A e \in Doc : link'[e] # link[e] => link'[e] = "none" /\ e \in early
    BY <1>1, <1>2, <1>3 DEF Link
  <1>6. lost' \subseteq Doc /\ lost' \subseteq early
    BY <1>1, <1>2, <1>3
  <1> QED
    BY <1>1, <1>4, <1>5, <1>6

LEMMA CleanUpKeepsInv ==
  ASSUME MigrationInv, NEW r \in Runner, NEW d \in Doc, CleanUp(r, d)
  PROVE  MigrationInv'
  <1> DEFINE job == run[r]
  <1>1. /\ job # Finished /\ job.cleanup /\ d \in job.todo /\ Passed(r, d)
        /\ UNCHANGED <<stored, deleted, current, complete, early, raced>>
        /\ legacy' \in [Doc -> Legacy] /\ link' \in [Doc -> Link]
        /\ \A e \in Doc : legacy'[e] \in {"none", legacy[e]}
        /\ \A e \in Doc : link'[e] # link[e] => link'[e] = "none"
        /\ lost' \subseteq Doc /\ lost' \subseteq early
    BY CleanUpFacts
  <1>2. /\ run'[r] # Finished /\ run'[r].seen = job.seen /\ run'[r].todo = job.todo \ {d}
        /\ \A q \in Runner \ {r} : run'[q] = run[q]
        /\ run' \in [Runner -> RunType]
    BY <1>1, PassedFacts DEF MigrationInv
  <1>3. MigrationTypeOK'
    BY <1>1, <1>2 DEF MigrationInv, MigrationTypeOK
  <1>4. In(CollectionName)' = In(CollectionName)
    BY <1>1 DEF In
  <1>5. Progress
    BY <1>1, <1>4 DEF Progress
  <1>6. OnPlan(r)'
    BY <1>1, <1>3, <1>5, PassingKeepsPlan
  <1>7. NothingLeftBehind' /\ LostOnlyByEarlyCleanup'
    BY <1>1, <1>5, NothingStaysBehind DEF LostOnlyByEarlyCleanup
  <1>8. ReadsHold'
    <2> SUFFICES ASSUME NEW q \in Runner, NEW e \in Doc, run'[q] # Finished, run'[q].seen[e].read
                 PROVE  /\ e \in stored' \cup deleted'
                        /\ legacy'[e] \in {"none", run'[q].seen[e].legacy}
                        /\ link'[e] = "old" => run'[q].seen[e].link = "old"
                        /\ run'[q].seen[e].current # Absent => current'[e] # Absent
                        /\ e \in run'[q].todo /\ current'[e] # run'[q].seen[e].current
                             => <<q, e>> \in raced'
      BY DEF ReadsHold
    <2>1. /\ run[q] # Finished /\ run'[q].seen = run[q].seen /\ run[q].seen[e].read
          /\ run'[q].todo \subseteq run[q].todo
      BY <1>1, <1>2
    <2> QED
      BY <1>1, <1>5, <2>1, ReadsStay
  <1> QED
    BY <1>1, <1>2, <1>3, <1>5, <1>6, <1>7, <1>8, StepOfARun

-----------------------------------------------------------------------------
(* The server *)

\* A step of the server, which changes no run.
LEMMA StepOfTheServer ==
  ASSUME MigrationInv, MigrationTypeOK', Progress, UNCHANGED <<run, complete, early, lost>>,
         \A q \in Runner, e \in Doc :
           run[q] # Finished /\ run[q].seen[e].read =>
             /\ current'[e] # current[e] /\ e \in run[q].todo => <<q, e>> \in raced'
             /\ <<q, e>> \in raced => <<q, e>> \in raced'
  PROVE  MigrationInv'
  <1>1. NothingLeftBehind' /\ LostOnlyByEarlyCleanup'
    BY NothingStaysBehind DEF MigrationInv, LostOnlyByEarlyCleanup
  <1>2. ReadsHold'
    <2> SUFFICES ASSUME NEW q \in Runner, NEW e \in Doc, run'[q] # Finished, run'[q].seen[e].read
                 PROVE  /\ e \in stored' \cup deleted'
                        /\ legacy'[e] \in {"none", run'[q].seen[e].legacy}
                        /\ link'[e] = "old" => run'[q].seen[e].link = "old"
                        /\ run'[q].seen[e].current # Absent => current'[e] # Absent
                        /\ e \in run'[q].todo /\ current'[e] # run'[q].seen[e].current
                             => <<q, e>> \in raced'
      BY DEF ReadsHold
    <2> QED
      BY ReadsStay
  <1>3. RunsOnPlan'
    <2> SUFFICES ASSUME NEW q \in Runner, run'[q] # Finished PROVE OnPlan(q)'
      BY DEF RunsOnPlan
    <2> QED
      BY PlanStays
  <1> QED
    BY <1>1, <1>2, <1>3 DEF MigrationInv

LEMMA ServerWritesKeepsInv ==
  ASSUME MigrationInv, NEW d \in Doc, ServerWrites(d)
  PROVE  MigrationInv'
  <1>1. /\ current' = [current EXCEPT ![d] = Server]
        /\ raced' = raced \cup Overtaken(d, {})
        /\ UNCHANGED <<stored, deleted, legacy, link, run, complete, early, lost>>
    BY DEF ServerWrites
  <1>2. /\ current \in [Doc -> Value] /\ raced \subseteq Runner \X Doc
        /\ Server \in Value /\ Server # Absent
    BY MigrationAssumption DEF MigrationInv, MigrationTypeOK, Value
  <1>3. /\ current' \in [Doc -> Value] /\ current'[d] = Server
        /\ \A e \in Doc : e # d => current'[e] = current[e]
    BY <1>1, <1>2
  <1>4. In(CollectionName)' = In(CollectionName)
    BY <1>1 DEF In
  <1>5. Progress
    BY <1>1, <1>2, <1>3, <1>4 DEF Progress
  <1>6. MigrationTypeOK'
    <2>1. Overtaken(d, {}) \subseteq Runner \X Doc
      BY DEF Overtaken
    <2> QED
      BY <1>1, <1>2, <1>3, <2>1 DEF MigrationInv, MigrationTypeOK
  <1>7. ASSUME NEW q \in Runner, NEW e \in Doc, run[q] # Finished, run[q].seen[e].read
        PROVE  /\ current'[e] # current[e] => <<q, e>> \in raced'
               /\ <<q, e>> \in raced => <<q, e>> \in raced'
    <2>1. q \in {r \in Runner \ {} : run[r] # Finished /\ run[r].seen[e].read}
      BY <1>7
    <2>2. <<q, e>> \in Overtaken(e, {})
      BY <2>1 DEF Overtaken
    <2>3. current'[e] # current[e] => e = d
      BY <1>3
    <2> QED
      BY <1>1, <2>2, <2>3
  <1> QED
    BY <1>1, <1>5, <1>6, <1>7, StepOfTheServer

LEMMA ServerCreatesFacts ==
  ASSUME MigrationInv, NEW d \in Doc, ServerCreates(d)
  PROVE  /\ d \notin stored \cup deleted /\ stored' = stored \cup {d}
         /\ UNCHANGED <<deleted, run, complete, early, lost, raced>>
         /\ legacy' \in [Doc -> Legacy] /\ current' \in [Doc -> Value] /\ link' \in [Doc -> Link]
         /\ legacy'[d] = "none" /\ current'[d] = Server /\ link'[d] # "old"
         /\ \A e \in Doc : e # d => /\ legacy'[e] = legacy[e] /\ current'[e] = current[e]
                                    /\ link'[e] = link[e]
  <1>1. /\ legacy \in [Doc -> Legacy] /\ current \in [Doc -> Value] /\ link \in [Doc -> Link]
        /\ Server \in Value
    BY DEF MigrationInv, MigrationTypeOK, Value
  <1>2. /\ d \notin stored \cup deleted /\ stored' = stored \cup {d}
        /\ UNCHANGED <<deleted, run, complete, early, lost, raced>>
        /\ legacy' = [legacy EXCEPT ![d] = "none"]
        /\ current' = [current EXCEPT ![d] = Server]
        /\ link' = [link EXCEPT ![d] = IF d \in DOMAIN ItemOf THEN "new" ELSE "none"]
    BY DEF ServerCreates, IsNext, historyVars
  <1> QED
    BY <1>1, <1>2 DEF Legacy, Link

LEMMA ServerCreatesKeepsInv ==
  ASSUME MigrationInv, NEW d \in Doc, ServerCreates(d)
  PROVE  MigrationInv'
  <1>1. /\ d \notin stored \cup deleted /\ stored' = stored \cup {d}
        /\ UNCHANGED <<deleted, run, complete, early, lost, raced>>
        /\ legacy' \in [Doc -> Legacy] /\ current' \in [Doc -> Value] /\ link' \in [Doc -> Link]
        /\ legacy'[d] = "none" /\ current'[d] = Server /\ link'[d] # "old"
        /\ \A e \in Doc : e # d => /\ legacy'[e] = legacy[e] /\ current'[e] = current[e]
                                   /\ link'[e] = link[e]
    BY ServerCreatesFacts
  <1>2. MigrationTypeOK'
    BY <1>1 DEF MigrationInv, MigrationTypeOK
  <1>3. Progress
    <2>1. Server # Absent
      BY MigrationAssumption
    <2>2. Done(d)'
      BY <1>1 DEF Done
    <2>3. \A e \in In(CollectionName) : e \in stored' => e \in In(CollectionName)'
      BY BatchStays DEF MigrationInv
    <2> QED
      BY <1>1, <2>1, <2>2, <2>3 DEF Progress
  <1>4. \A q \in Runner : run[q] # Finished => ~run[q].seen[d].read
    BY <1>1 DEF MigrationInv, ReadsHold
  <1> QED
    BY <1>1, <1>2, <1>3, <1>4, StepOfTheServer

LEMMA ServerDeletesKeepsInv ==
  ASSUME MigrationInv, NEW d \in Doc, ServerDeletes(d)
  PROVE  MigrationInv'
  <1>1. /\ d \in stored /\ stored' = stored \ {d} /\ deleted' = deleted \cup {d}
        /\ UNCHANGED <<legacy, current, link, run, complete, early, lost, raced>>
    BY DEF ServerDeletes, historyVars
  <1>2. MigrationTypeOK'
    BY <1>1 DEF MigrationInv, MigrationTypeOK
  <1>3. Progress
    <2>1. \A e \in In(CollectionName) : e \in stored' => e \in In(CollectionName)'
      BY BatchStays DEF MigrationInv
    <2> QED
      BY <1>1, <2>1 DEF Progress
  <1> QED
    BY <1>1, <1>2, <1>3, StepOfTheServer

-----------------------------------------------------------------------------
(* Every step *)

LEMMA NextKeepsInv == MigrationInv /\ [MigrationNext]_migrationVars => MigrationInv'
  <1> SUFFICES ASSUME MigrationInv, [MigrationNext]_migrationVars PROVE MigrationInv'
    OBVIOUS
  <1>1. CASE UNCHANGED migrationVars
    <2>1. UNCHANGED <<docVars, run, complete, early, lost, raced>>
      BY <1>1 DEF migrationVars, historyVars
    <2>2. Progress /\ UNCHANGED <<stored, deleted, legacy, current, link>>
      BY <2>1, SameDocuments
    <2>3. MigrationTypeOK'
      BY <2>1, <2>2 DEF MigrationInv, MigrationTypeOK
    <2> QED
      BY <2>1, <2>2, <2>3, StepOfTheServer
  <1>2. ASSUME NEW d \in Doc, ServerWrites(d) \/ ServerCreates(d) \/ ServerDeletes(d)
        PROVE  MigrationInv'
    BY <1>2, ServerWritesKeepsInv, ServerCreatesKeepsInv, ServerDeletesKeepsInv
  <1>3. ASSUME NEW r \in Runner, NEW d \in Doc, Migrate(r, d) \/ CleanUp(r, d)
        PROVE  MigrationInv'
    BY <1>3, MigrateKeepsInv, CleanUpKeepsInv
  <1>4. ASSUME NEW r \in Runner, NextPhase(r) \/ Die(r)
        PROVE  MigrationInv'
    BY <1>4, NextPhaseKeepsInv, DieKeepsInv
  <1>5. ASSUME NEW r \in Runner, NEW cleanup \in BOOLEAN, NEW apply \in BOOLEAN,
               Start(r, cleanup, apply)
        PROVE  MigrationInv'
    BY <1>5, StartKeepsInv
  <1>6. ASSUME NEW r \in Runner, NEW collection \in CollectionName, Find(r, collection)
        PROVE  MigrationInv'
    BY <1>6, FindKeepsInv
  <1> QED
    BY <1>1, <1>2, <1>3, <1>4, <1>5, <1>6 DEF MigrationNext, ServerNext, RunNext

\* The inductive invariant holds in every behaviour of the script and the server,
\* which creates and deletes documents while and between the runs.
THEOREM MigrationInvariant == MigrationSpec => []MigrationInv
  <1> QED
    BY InitInv, NextKeepsInv, PTL DEF MigrationSpec

\* After a run with --apply has finished, no document that was in a first batch when
\* it began has its value, or the reference to its item, under the old name only.
THEOREM NothingIsLeftBehind == MigrationSpec => []NothingLeftBehind
  <1>1. MigrationInv => NothingLeftBehind
    BY DEF MigrationInv
  <1> QED
    BY <1>1, MigrationInvariant, PTL

\* A cleanup loses a value or a reference only of a document for which a cleanup began
\* before a run with --apply had finished that began with it in the first batch.
THEOREM CleanupAfterwardsLosesNothing == MigrationSpec => []LostOnlyByEarlyCleanup
  <1>1. MigrationInv => LostOnlyByEarlyCleanup
    BY DEF MigrationInv
  <1> QED
    BY <1>1, MigrationInvariant, PTL

\* A value under the new name is replaced only by the server, or by a run that
\* had read the document before the value got there: the others plan no write.
THEOREM CurrentValuesStand == MigrationSpec => CurrentStands
  <1> DEFINE Stands == \A d \in Doc : current[d] # Absent /\ current'[d] # current[d] =>
                         current'[d] = Server \/ \E r \in Runner : Migrate(r, d) /\ <<r, d>> \in raced
  <1>1. MigrationInv /\ [MigrationNext]_migrationVars => [Stands]_current
    <2> SUFFICES ASSUME MigrationInv, MigrationNext,
                        NEW d \in Doc, current[d] # Absent, current'[d] # current[d]
                 PROVE  current'[d] = Server \/ \E r \in Runner : Migrate(r, d) /\ <<r, d>> \in raced
      BY DEF migrationVars, docVars
    <2>0. current \in [Doc -> Value]
      BY DEF MigrationInv, MigrationTypeOK
    <2>1. ASSUME NEW e \in Doc, ServerWrites(e) \/ ServerCreates(e) \/ ServerDeletes(e)
          PROVE  current'[d] = Server
      BY <2>0, <2>1 DEF ServerWrites, ServerCreates, ServerDeletes
    <2>2. ASSUME NEW e \in Doc, NEW r \in Runner, Migrate(r, e)
          PROVE  e = d /\ <<r, d>> \in raced
      <3> DEFINE value == Desired(e, run[r].seen)
                 sets  == /\ run[r].apply /\ e \in stored
                          /\ value \notin {Absent, run[r].seen[e].current}
      <3>1. /\ run[r] # Finished /\ e \in run[r].todo
            /\ current' = IF sets THEN [current EXCEPT ![e] = value] ELSE current
        BY <2>2 DEF Migrate
      <3>2. /\ run[r].seen[e].read
            /\ run[r].seen[e].current # Absent => value = run[r].seen[e].current
        BY <3>1, DesiredFacts
      <3> HIDE DEF value
      <3>3. e = d /\ value \notin {Absent, run[r].seen[e].current}
        <4>1. sets
          BY <3>1
        <4> HIDE DEF sets
        <4>2. e = d
          BY <2>0, <3>1, <4>1
        <4> USE DEF sets
        <4> QED
          BY <4>1, <4>2
      <3>4. current[d] # run[r].seen[d].current
        BY <3>2, <3>3, Zenon
      <3> QED
        BY <3>1, <3>2, <3>3, <3>4 DEF MigrationInv, ReadsHold
    <2>3. ASSUME NEW r \in Runner, RunNext(r) PROVE \E e \in Doc : Migrate(r, e)
      <3>1. ASSUME NEW e \in Doc, CleanUp(r, e) PROVE FALSE
        BY <3>1 DEF CleanUp
      <3>2. ~NextPhase(r) /\ ~Die(r)
        BY DEF NextPhase, Die, docVars
      <3>3. ASSUME NEW cleanup \in BOOLEAN, NEW apply \in BOOLEAN, Start(r, cleanup, apply)
            PROVE  FALSE
        BY <3>3 DEF Start, docVars
      <3>4. ASSUME NEW collection \in CollectionName, Find(r, collection) PROVE FALSE
        BY <3>4 DEF Find, docVars
      <3> QED
        BY <2>3, <3>1, <3>2, <3>3, <3>4 DEF RunNext
    <2> QED
      BY <2>1, <2>2, <2>3 DEF MigrationNext, ServerNext
  <1> QED
    BY <1>1, MigrationInvariant, PTL DEF MigrationSpec, CurrentStands

-----------------------------------------------------------------------------
(* The points of deposits *)

\* What a migrating run knows of the deposits: it has read those of the first batch,
\* or the server has created them since; it has read the items that are due; and what
\* it has gone through has points if its item has.
CopiesPoints(r) ==
  LET job == run[r] IN
  /\ \A d \in Doc \ early : job.seen[d].read => (job.seen[d].link = "none" <=> link[d] = "none")
  /\ \A d \in job.due \cap stored : Collection[d] \in job.found => job.seen[d].read
  /\ "depositrequests" \in job.found =>
       /\ \A d \in In({"depositrequests"}) : job.seen[d].read \/ current[d] # Absent
       /\ \A i \in job.due, d \in Doc \ job.todo : RefersTo(d, i) => current[d] # Absent

DepositsInv ==
  /\ DepositsGetItemPoints
  /\ \A r \in Runner : run[r] # Finished => CopiesPoints(r)

LEMMA InitDeposits == MigrationInit => DepositsInv
  BY DEF MigrationInit, DepositsInv, DepositsGetItemPoints

\* A reference to an item is no news, or comes with points; the first batch of the
\* deposits only gets what has points.
DepositProgress ==
  /\ early \subseteq early'
  /\ \A d \in Doc : /\ current[d] # Absent => current'[d] # Absent
                    /\ d \in In({"depositrequests"})' =>
                         d \in In({"depositrequests"}) \/ current'[d] # Absent
                    /\ d \in stored \cup deleted /\ d \notin early' =>
                         (link'[d] = "none" <=> link[d] = "none")
                    /\ d \in stored' \ stored => d \notin deleted
  /\ \A d \in Doc, i \in Doc : RefersTo(d, i)' => RefersTo(d, i) \/ current'[d] # Absent

LEMMA InDocs ==
  ASSUME MigrationTypeOK
  PROVE  \A c : In(c) \subseteq Doc /\ In(c) \subseteq stored
  BY DEF In, MigrationTypeOK

LEMMA CopiesStay ==
  ASSUME MigrationInv, MigrationTypeOK', DepositsInv, DepositProgress,
         NEW r \in Runner, run[r] # Finished, run'[r] = run[r]
  PROVE  CopiesPoints(r)'
  <1> DEFINE job == run[r]
  <1>1. CopiesPoints(r) /\ OnPlan(r)
    BY DEF DepositsInv, MigrationInv, RunsOnPlan
  <1>2. job.due \subseteq Doc
    BY JobOf DEF MigrationInv, Job
  <1>3. \A d \in Doc \ early' : job.seen[d].read => (job.seen[d].link = "none" <=> link'[d] = "none")
    <2>1. \A d \in Doc : job.seen[d].read => d \in stored \cup deleted
      BY DEF MigrationInv, ReadsHold
    <2> QED
      BY <1>1, <2>1 DEF CopiesPoints, DepositProgress
  <1>4. \A d \in job.due \cap stored' : Collection[d] \in job.found => job.seen[d].read
    BY <1>1, <1>2 DEF CopiesPoints, OnPlan, DepositProgress
  <1>5. ASSUME "depositrequests" \in job.found
        PROVE  /\ \A d \in In({"depositrequests"})' : job.seen[d].read \/ current'[d] # Absent
               /\ \A i \in job.due, d \in Doc \ job.todo : RefersTo(d, i)' => current'[d] # Absent
    <2>1. \A d \in In({"depositrequests"})' : d \in Doc
      BY InDocs DEF In, MigrationTypeOK
    <2>2. \A d \in In({"depositrequests"})' : job.seen[d].read \/ current'[d] # Absent
      BY <1>1, <1>5, <2>1 DEF CopiesPoints, DepositProgress
    <2>3. \A i \in job.due, d \in Doc \ job.todo : RefersTo(d, i)' => current'[d] # Absent
      BY <1>1, <1>2, <1>5 DEF CopiesPoints, DepositProgress
    <2> QED
      BY <2>2, <2>3
  <1> QED
    BY <1>3, <1>4, <1>5 DEF CopiesPoints

LEMMA PointsStay ==
  ASSUME MigrationInv, DepositsInv, DepositProgress, UNCHANGED complete
  PROVE  DepositsGetItemPoints'
  <1>1. complete \subseteq Doc
    BY DEF MigrationInv, MigrationTypeOK
  <1> QED
    BY <1>1 DEF DepositsInv, DepositsGetItemPoints, DepositProgress

\* What a step of one run, r, leaves to prove.
LEMMA DepositStep ==
  ASSUME MigrationInv, MigrationTypeOK', DepositsInv, DepositProgress, NEW r \in Runner,
         \A q \in Runner \ {r} : run'[q] = run[q],
         DepositsGetItemPoints', run'[r] # Finished => CopiesPoints(r)'
  PROVE  DepositsInv'
  <1> SUFFICES ASSUME NEW q \in Runner, run'[q] # Finished PROVE CopiesPoints(q)'
    BY DEF DepositsInv
  <1>1. CASE q = r
    BY <1>1
  <1>2. CASE q # r
    BY <1>2, CopiesStay
  <1> QED
    BY <1>1, <1>2

LEMMA SameDeposits ==
  ASSUME UNCHANGED docVars, early \subseteq early'
  PROVE  DepositProgress
  <1>1. /\ UNCHANGED <<stored, deleted, legacy, current, link>>
        /\ \A c : In(c)' = In(c)
    BY SameDocuments
  <1> QED
    BY <1>1 DEF DepositProgress, RefersTo

\* A run that begins a phase.
LEMMA BegunCopies ==
  ASSUME NEW r \in Runner, run'[r].found = {}, \A d \in Doc : ~run'[r].seen[d].read
  PROVE  CopiesPoints(r)'
  BY DEF CopiesPoints

\* Migrating the deposits reads the items.
LEMMA DepositPhase ==
  ASSUME NEW p \in 1..5, "depositrequests" \in Sources(FALSE, p)
  PROVE  p = 5 /\ "items" \in Sources(FALSE, p) /\ "depositrequests" \in Targets(FALSE, p)
  <1>1. /\ Targets(FALSE, 1) = {"users"} /\ Targets(FALSE, 2) = {"admins"}
        /\ Targets(FALSE, 3) = {"states", "areas"} /\ Targets(FALSE, 4) = {"items"}
        /\ Targets(FALSE, 5) = {"depositrequests"}
    BY DEF Targets
  <1>2. p # 1 /\ p # 2 /\ p # 3 /\ p # 4
    BY <1>1 DEF Sources
  <1>3. p = 5
    BY <1>2
  <1> QED
    BY <1>1, <1>3 DEF Sources

\* A run to which something is due migrates.
LEMMA DueMigrates ==
  ASSUME MigrationInv, NEW r \in Runner, run[r] # Finished, run[r].due # {}
  PROVE  run[r].apply /\ run[r].cleanup = FALSE /\ run[r].phase \in 1..5
  <1>1. OnPlan(r) /\ run[r] \in Job
    BY JobOf DEF MigrationInv, RunsOnPlan
  <1>2. run[r].apply /\ run[r].cleanup = FALSE
    BY <1>1 DEF OnPlan, Job
  <1>3. run[r].phase <= 5
    BY <1>1, <1>2 DEF OnPlan, LastPhase
  <1>4. run[r].phase \in 1..6
    BY <1>1 DEF Job
  <1> QED
    BY <1>2, <1>3, <1>4

LEMMA StartKeepsDeposits ==
  ASSUME MigrationInv, MigrationInv', DepositsInv, NEW r \in Runner,
         NEW cleanup \in BOOLEAN, NEW apply \in BOOLEAN, Start(r, cleanup, apply)
  PROVE  DepositsInv'
  <1> DEFINE begun == Phase(cleanup, apply, 1, Due(cleanup, apply))
  <1>1. /\ run' = [run EXCEPT ![r] = begun] /\ run \in [Runner -> RunType]
        /\ early \subseteq early' /\ UNCHANGED <<docVars, complete>>
    BY DEF Start, MigrationInv, MigrationTypeOK
  <1>2. begun.found = {} /\ \A d \in Doc : ~begun.seen[d].read
    <2>1. Due(cleanup, apply) \in SUBSET Doc
      BY InDocs DEF Due, MigrationInv
    <2> QED
      BY <2>1, PhaseType
  <1> HIDE DEF begun
  <1>3. run'[r] = begun /\ \A q \in Runner \ {r} : run'[q] = run[q]
    BY <1>1
  <1>4. DepositProgress
    BY <1>1, SameDeposits
  <1>5. CopiesPoints(r)'
    BY <1>2, <1>3, BegunCopies
  <1> QED
    BY <1>1, <1>3, <1>4, <1>5, PointsStay, DepositStep DEF MigrationInv

LEMMA DieKeepsDeposits ==
  ASSUME MigrationInv, MigrationInv', DepositsInv, NEW r \in Runner, Die(r)
  PROVE  DepositsInv'
  <1>1. /\ run' = [run EXCEPT ![r] = Finished] /\ run \in [Runner -> RunType]
        /\ UNCHANGED <<docVars, complete, early>>
    BY DEF Die, MigrationInv, MigrationTypeOK
  <1>2. run'[r] = Finished /\ \A q \in Runner \ {r} : run'[q] = run[q]
    BY <1>1
  <1>3. DepositProgress
    BY <1>1, SameDeposits
  <1> QED
    BY <1>1, <1>2, <1>3, PointsStay, DepositStep DEF MigrationInv

LEMMA NextPhaseKeepsDeposits ==
  ASSUME MigrationInv, MigrationInv', DepositsInv, NEW r \in Runner, NextPhase(r)
  PROVE  DepositsInv'
  <1> DEFINE job   == run[r]
             begun == Phase(job.cleanup, job.apply, job.phase + 1, job.due)
  <1>1. /\ job # Finished /\ job.todo = {} /\ HasRead(job)
        /\ run \in [Runner -> RunType] /\ UNCHANGED <<docVars, early>>
    BY DEF NextPhase, MigrationInv, MigrationTypeOK
  <1>2. OnPlan(r) /\ job \in Job /\ CopiesPoints(r)
    BY <1>1, JobOf DEF MigrationInv, RunsOnPlan, DepositsInv
  <1>3. /\ job.phase \in 1..6 /\ job.cleanup \in BOOLEAN /\ job.apply \in BOOLEAN
        /\ job.due \subseteq Doc /\ job.phase <= LastPhase(job.cleanup)
    BY <1>2 DEF Job, OnPlan
  <1>4. DepositProgress
    BY <1>1, SameDeposits
  <1>5. CASE job.phase < LastPhase(job.cleanup)
    <2>1. run' = [run EXCEPT ![r] = begun] /\ complete' = complete
      BY <1>5 DEF NextPhase
    <2>2. job.phase + 1 \in 1..6
      BY <1>3, <1>5 DEF LastPhase
    <2>3. begun.found = {} /\ \A d \in Doc : ~begun.seen[d].read
      BY <1>3, <2>2, PhaseType
    <2> HIDE DEF begun
    <2>4. run'[r] = begun /\ \A q \in Runner \ {r} : run'[q] = run[q]
      BY <1>1, <2>1
    <2>5. CopiesPoints(r)'
      BY <2>3, <2>4, BegunCopies
    <2> QED
      BY <1>4, <2>1, <2>4, <2>5, PointsStay, DepositStep DEF MigrationInv
  <1>6. CASE ~(job.phase < LastPhase(job.cleanup))
    <2>1. run' = [run EXCEPT ![r] = Finished] /\ complete' = complete \cup job.due
      BY <1>6 DEF NextPhase
    <2>2. run'[r] = Finished /\ \A q \in Runner \ {r} : run'[q] = run[q]
      BY <1>1, <2>1
    <2>3. ASSUME NEW i \in job.due, NEW d \in Doc, RefersTo(d, i) PROVE current[d] # Absent
      <3>1. job.cleanup = FALSE
        BY <1>1, <2>3, DueMigrates
      <3>2. job.phase = 5
        BY <1>3, <1>6, <3>1 DEF LastPhase
      <3>3. "depositrequests" \in job.found
        <4>1. "depositrequests" \in Sources(job.cleanup, job.phase)
          BY <3>1, <3>2 DEF Sources, Targets
        <4> QED
          BY <1>1, <4>1 DEF HasRead
      <3> QED
        BY <1>1, <1>2, <2>3, <3>3 DEF CopiesPoints
    <2>4. DepositsGetItemPoints'
      <3>1. /\ UNCHANGED <<stored, deleted, legacy, current, link, early>>
            /\ \A c : In(c)' = In(c)
        BY <1>1, SameDocuments
      <3>2. \A d, i : RefersTo(d, i)' = RefersTo(d, i)
        BY <3>1 DEF RefersTo
      <3> QED
        BY <2>1, <2>3, <3>1, <3>2 DEF DepositsInv, DepositsGetItemPoints
    <2> QED
      BY <1>4, <2>2, <2>4, DepositStep DEF MigrationInv
  <1> QED
    BY <1>5, <1>6

LEMMA FindKeepsDeposits ==
  ASSUME MigrationInv, MigrationInv', DepositsInv,
         NEW r \in Runner, NEW c \in CollectionName, Find(r, c)
  PROVE  DepositsInv'
  <1> DEFINE job == run[r]
  <1>1. /\ job # Finished /\ UNCHANGED <<docVars, complete, early>>
        /\ c \in Sources(job.cleanup, job.phase)
    BY DEF Find, historyVars
  <1>2. /\ run'[r].due = job.due /\ run'[r].found = job.found \cup {c}
        /\ run'[r].todo = IF c \in Targets(job.cleanup, job.phase)
                            THEN job.todo \cup In({c}) ELSE job.todo
        /\ \A d \in Doc : run'[r].seen[d] = IF d \in In({c}) THEN ReadNow(d) ELSE job.seen[d]
        /\ \A q \in Runner \ {r} : run'[q] = run[q]
    BY FindFacts
  <1>3. /\ UNCHANGED <<stored, deleted, legacy, current, link>>
        /\ \A k : In(k)' = In(k)
    BY <1>1, SameDocuments
  <1>4. DepositProgress
    BY <1>1, SameDeposits
  <1>5. OnPlan(r) /\ CopiesPoints(r) /\ job.due \subseteq Doc
    BY <1>1, JobOf DEF MigrationInv, RunsOnPlan, DepositsInv, Job
  <1>6. ASSUME NEW d \in Doc
        PROVE  /\ d \in In({c}) => run'[r].seen[d].read /\ run'[r].seen[d].link = link[d]
               /\ d \notin In({c}) => run'[r].seen[d] = job.seen[d]
    <2>1. d \in In({c}) => run'[r].seen[d] = ReadNow(d)
      BY <1>2
    <2>2. ReadNow(d).read /\ ReadNow(d).link = link[d]
      BY DEF ReadNow
    <2>3. d \notin In({c}) => run'[r].seen[d] = job.seen[d]
      BY <1>2
    <2> QED
      BY <2>1, <2>2, <2>3
  <1>7. \A d \in Doc \ early :
          run'[r].seen[d].read => (run'[r].seen[d].link = "none" <=> link[d] = "none")
    BY <1>5, <1>6 DEF CopiesPoints
  <1>8. \A d \in job.due \cap stored : Collection[d] \in run'[r].found => run'[r].seen[d].read
    <2> SUFFICES ASSUME NEW d \in job.due, d \in stored, Collection[d] \in run'[r].found
                 PROVE  run'[r].seen[d].read
      OBVIOUS
    <2>1. CASE Collection[d] = c
      <3>1. d \in In({c})
        BY <1>5, <2>1, InFacts DEF OnPlan
      <3> QED
        BY <1>5, <1>6, <3>1
    <2>2. CASE Collection[d] # c
      <3>1. job.seen[d].read
        BY <1>2, <1>5, <2>2 DEF CopiesPoints
      <3> QED
        BY <1>5, <1>6, <3>1
    <2> QED
      BY <2>1, <2>2
  <1>9. ASSUME "depositrequests" \in run'[r].found
        PROVE  /\ \A d \in In({"depositrequests"}) : run'[r].seen[d].read \/ current[d] # Absent
               /\ \A i \in job.due, d \in Doc \ run'[r].todo : RefersTo(d, i) => current[d] # Absent
    <2>1. \A d \in In({"depositrequests"}) : d \in Doc
      BY InDocs DEF MigrationInv
    <2>2. CASE c = "depositrequests"
      <3>1. \A d \in In({"depositrequests"}) : run'[r].seen[d].read
        BY <1>6, <2>1, <2>2
      <3>2. ASSUME NEW i \in job.due, NEW d \in In({"depositrequests"})
            PROVE  d \in run'[r].todo
        <4>1. job.cleanup = FALSE /\ job.phase \in 1..5
          BY <1>1, <3>2, DueMigrates
        <4>2. c \in Targets(FALSE, job.phase)
          BY <1>1, <2>2, <4>1, DepositPhase
        <4> QED
          BY <1>2, <2>2, <4>1, <4>2
      <3> QED
        BY <3>1, <3>2 DEF RefersTo
    <2>3. CASE c # "depositrequests"
      <3>1. "depositrequests" \in job.found /\ job.todo \subseteq run'[r].todo
        BY <1>2, <1>9, <2>3
      <3>2. \A d \in In({"depositrequests"}) : run'[r].seen[d].read \/ current[d] # Absent
        BY <1>5, <1>6, <2>1, <3>1 DEF CopiesPoints
      <3>3. \A i \in job.due, d \in Doc \ run'[r].todo : RefersTo(d, i) => current[d] # Absent
        BY <1>5, <3>1 DEF CopiesPoints
      <3> QED
        BY <3>2, <3>3
    <2> QED
      BY <2>2, <2>3
  <1>10. CopiesPoints(r)'
    <2>1. \A d, i : RefersTo(d, i)' = RefersTo(d, i)
      BY <1>1, <1>3 DEF RefersTo
    <2> QED
      BY <1>1, <1>2, <1>3, <1>7, <1>8, <1>9, <2>1 DEF CopiesPoints
  <1> QED
    BY <1>1, <1>2, <1>4, <1>10, PointsStay, DepositStep DEF MigrationInv

LEMMA MigrateKeepsDeposits ==
  ASSUME MigrationInv, MigrationInv', DepositsInv, NEW r \in Runner, NEW d \in Doc, Migrate(r, d)
  PROVE  DepositsInv'
  <1> DEFINE job == run[r]
  <1>1. /\ job # Finished /\ ~job.cleanup /\ d \in job.todo /\ HasRead(job) /\ Passed(r, d)
        /\ UNCHANGED <<stored, deleted, legacy, complete, early, lost>>
        /\ \A e \in Doc : e # d => current'[e] = current[e] /\ link'[e] = link[e]
        /\ current[d] # Absent => current'[d] # Absent
        /\ link'[d] \in {link[d], "new"}
        /\ link'[d] # link[d] => job.seen[d].link = "old"
        /\ job.apply /\ d \in stored => (Desired(d, job.seen) # Absent => current'[d] # Absent)
    BY MigrateFacts
  <1>2. /\ run'[r].due = job.due /\ run'[r].found = job.found
        /\ run'[r].seen = job.seen /\ run'[r].todo = job.todo \ {d}
        /\ \A q \in Runner \ {r} : run'[q] = run[q]
    BY <1>1, PassedFacts DEF MigrationInv
  <1>3. OnPlan(r) /\ CopiesPoints(r) /\ job.due \subseteq Doc
    BY <1>1, JobOf DEF MigrationInv, RunsOnPlan, DepositsInv, Job
  <1>4. job.seen[d].read
    BY <1>1, <1>3 DEF OnPlan
  <1>5. \A k : In(k)' = In(k)
    BY <1>1 DEF In
  \* A reference that a stale run restores is one that a cleanup had taken.
  <1>6. \A e \in Doc \ early : link'[e] = "none" <=> link[e] = "none"
    <2>1. d \notin early => (job.seen[d].link = "none" <=> link[d] = "none")
      BY <1>3, <1>4 DEF CopiesPoints
    <2> QED
      BY <1>1, <2>1
  <1>7. \A e, i \in Doc : RefersTo(e, i)' => RefersTo(e, i)
    BY <1>1, <1>5, <1>6 DEF RefersTo
  <1>8. DepositProgress
    BY <1>1, <1>5, <1>6, <1>7 DEF DepositProgress
  <1>9. ASSUME NEW i \in job.due, RefersTo(d, i), "depositrequests" \in job.found
        PROVE  current'[d] # Absent
    <2>1. /\ d \in stored /\ d \notin early
          /\ d \in DOMAIN ItemOf /\ i = ItemOf[d] /\ link[d] # "none"
          /\ i \in stored /\ legacy[i] = "valid" /\ i \in Doc /\ Collection[i] = "items"
      BY <1>3, <1>9, InFacts, MigrationAssumption DEF RefersTo
    <2>2. job.apply /\ job.cleanup = FALSE /\ job.phase \in 1..5
      BY <1>1, <1>9, DueMigrates
    <2>3. "items" \in job.found
      <3>1. "depositrequests" \in Sources(FALSE, job.phase)
        BY <1>3, <1>9, <2>2 DEF OnPlan
      <3>2. "items" \in Sources(FALSE, job.phase)
        BY <2>2, <3>1, DepositPhase
      <3> QED
        BY <1>1, <2>2, <3>2 DEF HasRead
    <2>4. job.seen[i].read
      BY <1>3, <1>9, <2>1, <2>3 DEF CopiesPoints
    <2>5. job.seen[i].legacy = "valid"
      BY <1>1, <2>1, <2>4 DEF MigrationInv, ReadsHold
    <2>6. job.seen[d].link # "none"
      BY <1>3, <1>4, <2>1 DEF CopiesPoints
    <2>7. Desired(d, job.seen) # Absent
      BY <1>1, <2>1, <2>5, <2>6, DesiredFacts
    <2> QED
      BY <1>1, <2>1, <2>2, <2>7
  <1>10. CopiesPoints(r)'
    <2>1. \A e \in Doc \ early' :
            run'[r].seen[e].read => (run'[r].seen[e].link = "none" <=> link'[e] = "none")
      BY <1>1, <1>2, <1>3, <1>6 DEF CopiesPoints
    <2>2. \A e \in run'[r].due \cap stored' :
            Collection[e] \in run'[r].found => run'[r].seen[e].read
      BY <1>1, <1>2, <1>3 DEF CopiesPoints
    <2>3. ASSUME "depositrequests" \in run'[r].found
          PROVE  /\ \A e \in In({"depositrequests"})' : run'[r].seen[e].read \/ current'[e] # Absent
                 /\ \A i \in run'[r].due, e \in Doc \ run'[r].todo :
                      RefersTo(e, i)' => current'[e] # Absent
      <3>1. \A e \in In({"depositrequests"}) : e \in Doc
        BY InDocs DEF MigrationInv
      <3>2. \A e \in In({"depositrequests"})' : run'[r].seen[e].read \/ current'[e] # Absent
        BY <1>1, <1>2, <1>3, <1>5, <2>3, <3>1 DEF CopiesPoints
      <3>3. ASSUME NEW i \in job.due, NEW e \in Doc, e \notin run'[r].todo, RefersTo(e, i)'
            PROVE  current'[e] # Absent
        <4>1. RefersTo(e, i)
          BY <1>3, <1>7, <3>3
        <4>2. CASE e = d
          BY <1>2, <1>9, <2>3, <4>1, <4>2
        <4>3. CASE e # d
          BY <1>1, <1>2, <1>3, <2>3, <3>3, <4>1, <4>3 DEF CopiesPoints
        <4> QED
          BY <4>2, <4>3
      <3> QED
        BY <1>2, <3>2, <3>3
    <2> QED
      BY <2>1, <2>2, <2>3 DEF CopiesPoints
  <1> QED
    BY <1>1, <1>2, <1>8, <1>10, PointsStay, DepositStep DEF MigrationInv

LEMMA CleanUpKeepsDeposits ==
  ASSUME MigrationInv, MigrationInv', DepositsInv, NEW r \in Runner, NEW d \in Doc, CleanUp(r, d)
  PROVE  DepositsInv'
  <1> DEFINE job == run[r]
  <1>1. /\ job # Finished /\ job.cleanup /\ Passed(r, d)
        /\ UNCHANGED <<stored, deleted, current, complete, early>>
        /\ \A e \in Doc : legacy'[e] \in {"none", legacy[e]}
        /\ \A e \in Doc : link'[e] # link[e] => link'[e] = "none" /\ e \in early
    BY CleanUpFacts
  <1>2. /\ run'[r].due = job.due /\ run'[r].found = job.found /\ run'[r].seen = job.seen
        /\ \A q \in Runner \ {r} : run'[q] = run[q]
    BY <1>1, PassedFacts DEF MigrationInv
  <1>3. CopiesPoints(r) /\ job.due = {}
    BY <1>1 DEF MigrationInv, RunsOnPlan, OnPlan, DepositsInv
  <1>4. \A k : In(k)' = In(k)
    BY <1>1 DEF In
  <1>5. \A e, i \in Doc : RefersTo(e, i)' => RefersTo(e, i)
    BY <1>1, <1>4 DEF RefersTo
  <1>6. DepositProgress
    BY <1>1, <1>4, <1>5 DEF DepositProgress
  <1>7. CopiesPoints(r)'
    <2>1. \A e \in Doc \ early' :
            run'[r].seen[e].read => (run'[r].seen[e].link = "none" <=> link'[e] = "none")
      BY <1>1, <1>2, <1>3 DEF CopiesPoints
    <2>2. ASSUME "depositrequests" \in run'[r].found
          PROVE  \A e \in In({"depositrequests"})' : run'[r].seen[e].read \/ current'[e] # Absent
      BY <1>1, <1>2, <1>3, <1>4, <2>2 DEF CopiesPoints
    <2> QED
      BY <1>2, <1>3, <2>1, <2>2 DEF CopiesPoints
  <1> QED
    BY <1>1, <1>2, <1>6, <1>7, PointsStay, DepositStep DEF MigrationInv

\* A step of the server, which changes no run.
LEMMA ServerKeepsDeposits ==
  ASSUME MigrationInv, MigrationInv', DepositsInv, DepositProgress, UNCHANGED <<run, complete>>
  PROVE  DepositsInv'
  <1>1. DepositsGetItemPoints'
    BY PointsStay
  <1>2. \A q \in Runner : run'[q] # Finished => CopiesPoints(q)'
    BY CopiesStay DEF MigrationInv
  <1> QED
    BY <1>1, <1>2 DEF DepositsInv

LEMMA ServerWritesKeepsDeposits ==
  ASSUME MigrationInv, MigrationInv', DepositsInv, NEW d \in Doc, ServerWrites(d)
  PROVE  DepositsInv'
  <1>1. /\ current' = [current EXCEPT ![d] = Server] /\ current \in [Doc -> Value]
        /\ UNCHANGED <<stored, deleted, legacy, link, run, complete, early>>
        /\ Server # Absent
    BY MigrationAssumption DEF ServerWrites, MigrationInv, MigrationTypeOK
  <1>2. \A k : In(k)' = In(k)
    BY <1>1 DEF In
  <1>3. DepositProgress
    BY <1>1, <1>2 DEF DepositProgress, RefersTo
  <1> QED
    BY <1>1, <1>3, ServerKeepsDeposits

\* A deposit that the server creates has points, and those behind it are where they were.
LEMMA ServerCreatesKeepsDeposits ==
  ASSUME MigrationInv, MigrationInv', DepositsInv, NEW d \in Doc, ServerCreates(d)
  PROVE  DepositsInv'
  <1>1. /\ d \notin stored \cup deleted /\ stored' = stored \cup {d}
        /\ UNCHANGED <<deleted, run, complete, early, lost, raced>>
        /\ legacy'[d] = "none" /\ current'[d] = Server /\ link'[d] # "old"
        /\ \A e \in Doc : e # d => /\ legacy'[e] = legacy[e] /\ current'[e] = current[e]
                                   /\ link'[e] = link[e]
    BY ServerCreatesFacts
  <1>2. Server # Absent
    BY MigrationAssumption
  <1>3. ASSUME NEW e \in Doc, e # d, e \in In({"depositrequests"})'
        PROVE  e \in In({"depositrequests"})
    <2>1. /\ e \in stored /\ Collection[e] \in {"depositrequests"}
          /\ Cardinality(Ahead(e)') < BatchSize
      BY <1>1, <1>3 DEF In, Ahead
    <2>2. Collection[e] = Collection[d] => Rank[e] < Rank[d]
      BY <2>1 DEF ServerCreates, IsNext
    <2>3. Rank[d] \in Nat /\ Rank[e] \in Nat
      BY MigrationAssumption
    <2>4. ~(Collection[d] = Collection[e] /\ Rank[d] < Rank[e])
      BY <2>2, <2>3
    <2>5. Ahead(e)' = Ahead(e)
      BY <1>1, <2>4 DEF Ahead
    <2> QED
      BY <2>1, <2>5 DEF In, Ahead
  <1>4. ASSUME NEW e \in Doc, NEW i \in Doc, RefersTo(e, i)'
        PROVE  RefersTo(e, i) \/ current'[e] # Absent
    <2>1. CASE e = d
      BY <1>1, <1>2, <2>1
    <2>2. CASE e # d
      <3>1. i # d
        BY <1>1, <1>4 DEF RefersTo
      <3> QED
        BY <1>1, <1>3, <1>4, <2>2, <3>1 DEF RefersTo
    <2> QED
      BY <2>1, <2>2
  <1>5. DepositProgress
    BY <1>1, <1>2, <1>3, <1>4 DEF DepositProgress
  <1> QED
    BY <1>1, <1>5, ServerKeepsDeposits

\* Deposits are not deleted, so none moves up.
LEMMA ServerDeletesKeepsDeposits ==
  ASSUME MigrationInv, MigrationInv', DepositsInv, NEW d \in Doc, ServerDeletes(d)
  PROVE  DepositsInv'
  <1>1. /\ d \in stored /\ stored' = stored \ {d} /\ deleted' = deleted \cup {d}
        /\ Collection[d] # "depositrequests"
        /\ UNCHANGED <<legacy, current, link, run, complete, early>>
    BY DEF ServerDeletes, historyVars
  <1>2. ASSUME NEW e \in In({"depositrequests"})'
        PROVE  e \in In({"depositrequests"})
    <2>1. /\ e \in stored /\ Collection[e] \in {"depositrequests"}
          /\ Cardinality(Ahead(e)') < BatchSize
      BY <1>1, <1>2 DEF In, Ahead
    <2>2. Ahead(e)' = Ahead(e)
      BY <1>1, <2>1 DEF Ahead
    <2> QED
      BY <2>1, <2>2 DEF In, Ahead
  <1>3. \A e, i \in Doc : RefersTo(e, i)' => RefersTo(e, i)
    BY <1>1, <1>2 DEF RefersTo
  <1>4. DepositProgress
    BY <1>1, <1>2, <1>3 DEF DepositProgress
  <1> QED
    BY <1>1, <1>4, ServerKeepsDeposits

LEMMA NextKeepsDeposits ==
  MigrationInv /\ MigrationInv' /\ DepositsInv /\ [MigrationNext]_migrationVars => DepositsInv'
  <1> SUFFICES ASSUME MigrationInv, MigrationInv', DepositsInv, [MigrationNext]_migrationVars
               PROVE  DepositsInv'
    OBVIOUS
  <1>1. CASE UNCHANGED migrationVars
    <2>1. UNCHANGED <<docVars, run, complete, early>>
      BY <1>1 DEF migrationVars, historyVars
    <2> QED
      BY <2>1, SameDeposits, ServerKeepsDeposits
  <1>2. ASSUME NEW d \in Doc, ServerWrites(d) \/ ServerCreates(d) \/ ServerDeletes(d)
        PROVE  DepositsInv'
    BY <1>2, ServerWritesKeepsDeposits, ServerCreatesKeepsDeposits, ServerDeletesKeepsDeposits
  <1>3. ASSUME NEW r \in Runner, NEW d \in Doc, Migrate(r, d) \/ CleanUp(r, d)
        PROVE  DepositsInv'
    BY <1>3, MigrateKeepsDeposits, CleanUpKeepsDeposits
  <1>4. ASSUME NEW r \in Runner, NextPhase(r) \/ Die(r)
        PROVE  DepositsInv'
    BY <1>4, NextPhaseKeepsDeposits, DieKeepsDeposits
  <1>5. ASSUME NEW r \in Runner, NEW cleanup \in BOOLEAN, NEW apply \in BOOLEAN,
               Start(r, cleanup, apply)
        PROVE  DepositsInv'
    BY <1>5, StartKeepsDeposits
  <1>6. ASSUME NEW r \in Runner, NEW collection \in CollectionName, Find(r, collection)
        PROVE  DepositsInv'
    BY <1>6, FindKeepsDeposits
  <1> QED
    BY <1>1, <1>2, <1>3, <1>4, <1>5, <1>6 DEF MigrationNext, ServerNext, RunNext

\* After a run with --apply has finished that began with an item in the first batch,
\* no deposit of the first batch that refers to the item is without points, whatever
\* overlapping runs and the server did.
THEOREM ItemPointsReachDeposits == MigrationSpec => []DepositsGetItemPoints
  <1>1. DepositsInv => DepositsGetItemPoints
    BY DEF DepositsInv
  <1>2. MigrationSpec => []DepositsInv
    BY InitDeposits, NextKeepsDeposits, MigrationInvariant, PTL DEF MigrationSpec
  <1> QED
    BY <1>1, <1>2, PTL
=============================================================================
