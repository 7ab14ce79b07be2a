----------------------------- MODULE Migration -----------------------------
(***************************************************************************)
(* scripts/migrate-legacy-db.js: a run copies what the documents of the    *)
(* old application hold under their old names to the names of the schema,  *)
(* or removes the old names (--cleanup), or only counts what it would do   *)
(* (without --apply).  It goes through the collections one after another,  *)
(* reads the first batch of each, then updates document by document.  It   *)
(* can die anywhere, be run again, and run beside another run or beside    *)
(* the server, which writes, creates and deletes documents.                *)
(*                                                                         *)
(* Of every document one value is followed: a password, the country of a   *)
(* state or an area, the points of an item or a deposit; and of a deposit  *)
(* the name under which it refers to its item.                             *)
(***************************************************************************)
EXTENDS Naturals, FiniteSets

CONSTANTS
    Doc,            \* the documents there are, or may be
    Collection,     \* the collection of each
    Rank,           \* the order in which find returns those of a collection
    BatchSize,      \* how many it returns: the first batch, 101 documents
    ItemOf,         \* the item of each deposit
    Absent, Server, \* no value; a value written by the server
    Runner          \* the runs in flight at a time

CollectionName == {"users", "admins", "states", "areas", "items", "depositrequests"}

ASSUME MigrationAssumption ==
    /\ IsFiniteSet(Doc)
    /\ Collection \in [Doc -> CollectionName]
    /\ Rank \in [Doc -> Nat] /\ BatchSize \in Nat
    /\ \A d \in DOMAIN ItemOf :
         /\ d \in Doc /\ Collection[d] = "depositrequests"
         /\ ItemOf[d] \in Doc /\ Collection[ItemOf[d]] = "items"
    /\ Absent \notin Doc /\ Server \notin Doc /\ Absent # Server

VARIABLES
    stored,     \* the documents in the database
    deleted,    \* those that were
    legacy,     \* what a document has under the old name: an id can be invalid
    current,    \* and under the new one: the value its own old name had, that of
                \* its item, or one of the server
    link,       \* the name, if any, under which a deposit refers to its item
    run,        \* the state of every run
    complete,   \* history: what find returned when a run with --apply began that has finished
    early,      \* history: what was not complete when a cleanup with --apply began
    lost,       \* history: those of which a cleanup removed the only value, or the
                \* only reference to the item
    raced       \* history: which documents got a value since a run read them

docVars == <<stored, deleted, legacy, current, link>>
historyVars == <<complete, early, lost, raced>>
migrationVars == <<docVars, run, historyVars>>

Value    == Doc \cup {Absent, Server}
Legacy   == {"none", "valid", "invalid"}
Link     == {"none", "old", "new"}
Finished == [phase |-> 0]
References == {"states", "areas"}   \* whose value is the id of another document

Read == [legacy : Legacy, current : Value, link : Link, read : BOOLEAN]

\* due is what a run with --apply has to go through, the first batches there were
\* when it began; found and seen are what the run has read in its phase, todo what
\* it still goes through.
RunType ==
    {Finished}
      \cup [phase : 1..6, cleanup : BOOLEAN, apply : BOOLEAN, due : SUBSET Doc,
            found : SUBSET CollectionName, todo : SUBSET Doc, seen : [Doc -> Read]]

MigrationTypeOK ==
    /\ stored \subseteq Doc /\ deleted \subseteq Doc /\ stored \cap deleted = {}
    /\ legacy \in [Doc -> Legacy]
    /\ current \in [Doc -> Value]
    /\ link \in [Doc -> Link]
    /\ run \in [Runner -> RunType]
    /\ complete \subseteq Doc /\ early \subseteq Doc /\ lost \subseteq Doc
    /\ raced \subseteq Runner \X Doc

\* Later than all there are, and were, in its collection.
IsNext(d) ==
    /\ d \notin stored \cup deleted
    /\ \A e \in stored \cup deleted : Collection[e] = Collection[d] => Rank[e] < Rank[d]

\* Documents of the old application, or of the server.
MigrationInit ==
    /\ stored \in SUBSET Doc /\ deleted = {}
    /\ \A d \in Doc \ stored : IsNext(d)
    /\ legacy \in [Doc -> Legacy]
    /\ \A d \in Doc : legacy[d] = "invalid" => Collection[d] \in References
    /\ current \in [Doc -> {Absent, Server}]
    /\ link \in [Doc -> Link]
    /\ \A d \in Doc : current[d] = Server => legacy[d] = "none"
    /\ \A d \in Doc : link[d] = "new" <=> d \in DOMAIN ItemOf /\ current[d] = Server
    /\ \A d \in Doc \ DOMAIN ItemOf : link[d] = "none"
    /\ \A d \in Doc \ stored : legacy[d] = "none" /\ current[d] = Absent /\ link[d] = "none"
    /\ run = [r \in Runner |-> Finished]
    /\ complete = {} /\ early = {} /\ lost = {} /\ raced = {}

-----------------------------------------------------------------------------
(* Phases *)

\* Mutant: the items are left out.
Targets_NoItems(cleanup, phase) ==
    (IF cleanup THEN << {"users"}, {"admins"}, {"states"}, {"areas"}, {"items"},
                        {"depositrequests"} >>
     ELSE << {"users"}, {"admins"}, {"states", "areas"}, {}, {"depositrequests"} >>)[phase]

\* The collections a phase updates.
Targets(cleanup, phase) ==
    (IF cleanup THEN << {"users"}, {"admins"}, {"states"}, {"areas"}, {"items"},
                        {"depositrequests"} >>
     ELSE << {"users"}, {"admins"}, {"states", "areas"}, {"items"}, {"depositrequests"} >>)[phase]

LastPhase(cleanup) == IF cleanup THEN 6 ELSE 5

\* Migrating the deposits reads the items too.
Sources(cleanup, phase) ==
    Targets(cleanup, phase) \cup (IF ~cleanup /\ phase = 5 THEN {"items"} ELSE {})

\* What find returns now.
In(collections) ==
    {d \in stored :
       /\ Collection[d] \in collections
       /\ Cardinality({e \in stored : Collection[e] = Collection[d] /\ Rank[e] < Rank[d]})
            < BatchSize}

Unread == [d \in Doc |-> [legacy |-> "none", current |-> Absent, link |-> "none", read |-> FALSE]]

Over(r) == raced' = raced \ ({r} \X Doc)

Phase(cleanup, apply, phase, due) ==
    [phase |-> phase, cleanup |-> cleanup, apply |-> apply, due |-> due,
     found |-> {}, todo |-> {}, seen |-> Unread]

Due(cleanup, apply) == IF apply /\ ~cleanup THEN In(CollectionName) ELSE {}

Start(r, cleanup, apply) ==
    /\ run[r] = Finished
    /\ run' = [run EXCEPT ![r] = Phase(cleanup, apply, 1, Due(cleanup, apply))]
    /\ early' = IF cleanup /\ apply THEN early \cup (Doc \ complete) ELSE early
    /\ UNCHANGED <<docVars, complete, lost, raced>>

ReadNow(d) == [legacy |-> legacy[d], current |-> current[d], link |-> link[d], read |-> TRUE]

\* find, of one collection.
Find(r, collection) ==
    LET job == run[r]
        batch == In({collection})
    IN
    /\ job # Finished
    /\ collection \in Sources(job.cleanup, job.phase) \ job.found
    /\ run' = [run EXCEPT
                 ![r].found = @ \cup {collection},
                 ![r].todo = IF collection \in Targets(job.cleanup, job.phase)
                               THEN @ \cup batch ELSE @,
                 ![r].seen = [d \in Doc |-> IF d \in batch THEN ReadNow(d) ELSE @[d]]]
    /\ UNCHANGED <<docVars, historyVars>>

HasRead(job) == Sources(job.cleanup, job.phase) \subseteq job.found

\* The last one prints the result.
NextPhase(r) ==
    LET job == run[r] IN
    /\ job # Finished
    /\ HasRead(job) /\ job.todo = {}
    /\ IF job.phase < LastPhase(job.cleanup)
         THEN /\ run' = [run EXCEPT ![r] = Phase(job.cleanup, job.apply, job.phase + 1, job.due)]
              /\ UNCHANGED complete
         ELSE /\ run' = [run EXCEPT ![r] = Finished]
              /\ complete' = complete \cup job.due
    /\ Over(r)
    /\ UNCHANGED <<docVars, early, lost>>

Die(r) ==
    /\ run[r] # Finished
    /\ run' = [run EXCEPT ![r] = Finished]
    /\ Over(r)
    /\ UNCHANGED <<docVars, complete, early, lost>>

-----------------------------------------------------------------------------
(* One document *)

FirstOf(value, otherwise) == IF value # Absent THEN value ELSE otherwise

\* objectIdValue, and the values that are taken as they are.
Converted(d, doc) == IF doc.legacy = "valid" THEN d ELSE Absent

Own(d, doc) == FirstOf(doc.current, Converted(d, doc))

\* Mutant: the old name comes first.
Desired_OldFirst(d, seen) == FirstOf(Converted(d, seen[d]), seen[d].current)

\* Mutant: not those of the item.
Desired_Own(d, seen) == Own(d, seen[d])

\* A deposit without points of its own gets those of its item, if it refers to one
\* that find returned.
Desired(d, seen) ==
    FirstOf(Own(d, seen[d]),
            IF d \in DOMAIN ItemOf /\ seen[d].link # "none"
              THEN Own(ItemOf[d], seen[ItemOf[d]]) ELSE Absent)

Passed(r, d) == run' = [run EXCEPT ![r].todo = @ \ {d}]

\* d gets a value, from run r if any: which of the others have read it already.
Overtaken(d, r) ==
    {q \in Runner \ r : run[q] # Finished /\ run[q].seen[d].read} \X {d}

\* plannedSet and updateOne: only what differs from what was read is written,
\* over whatever there is by now; nothing if the document is gone.
Migrate(r, d) ==
    LET job     == run[r]
        value   == Desired(d, job.seen)
        updates == job.apply /\ d \in stored
        sets    == updates /\ value \notin {Absent, job.seen[d].current}
    IN
    /\ job # Finished /\ ~job.cleanup
    /\ HasRead(job) /\ d \in job.todo
    /\ current' = IF sets THEN [current EXCEPT ![d] = value] ELSE current
    /\ link' = IF updates /\ job.seen[d].link = "old" THEN [link EXCEPT ![d] = "new"] ELSE link
    /\ raced' = IF sets THEN raced \cup Overtaken(d, {r}) ELSE raced
    /\ Passed(r, d)
    /\ UNCHANGED <<stored, deleted, legacy, complete, early, lost>>

\* Whether the value was copied is not looked at, nor whether the reference of a
\* deposit was.  The old points of deposits are not among the names that are removed.
CleanUp(r, d) ==
    LET job     == run[r]
        updates == job.apply /\ d \in stored
        removes == updates /\ Collection[d] # "depositrequests" /\ job.seen[d].legacy # "none"
        unlinks == updates /\ job.seen[d].link = "old" /\ link[d] = "old"
    IN
    /\ job # Finished /\ job.cleanup
    /\ HasRead(job) /\ d \in job.todo
    /\ legacy' = IF removes THEN [legacy EXCEPT ![d] = "none"] ELSE legacy
    /\ link' = IF unlinks THEN [link EXCEPT ![d] = "none"] ELSE link
    /\ lost' = IF unlinks \/ (removes /\ legacy[d] = "valid" /\ current[d] = Absent)
                 THEN lost \cup {d} ELSE lost
    /\ Passed(r, d)
    /\ UNCHANGED <<stored, deleted, current, complete, early, raced>>

-----------------------------------------------------------------------------
(* The server *)

\* What it writes over its own values makes no difference to a run.  It never
\* writes the points of a deposit it has stored.
ServerWrites(d) ==
    /\ d \in stored /\ Collection[d] # "depositrequests"
    /\ current[d] # Server
    /\ current' = [current EXCEPT ![d] = Server]
    /\ raced' = raced \cup Overtaken(d, {})
    /\ UNCHANGED <<stored, deleted, legacy, link, run, complete, early, lost>>

ServerCreates(d) ==
    /\ IsNext(d)
    /\ stored' = stored \cup {d}
    /\ legacy' = [legacy EXCEPT ![d] = "none"]
    /\ current' = [current EXCEPT ![d] = Server]
    /\ link' = [link EXCEPT ![d] = IF d \in DOMAIN ItemOf THEN "new" ELSE "none"]
    /\ UNCHANGED <<deleted, run, historyVars>>

\* Users and deposits are never deleted.  The next of its collection moves up into
\* the first batch.
ServerDeletes(d) ==
    /\ d \in stored /\ Collection[d] \in {"admins", "states", "areas", "items"}
    /\ stored' = stored \ {d}
    /\ deleted' = deleted \cup {d}
    /\ UNCHANGED <<legacy, current, link, run, historyVars>>

ServerNext == \E d \in Doc : ServerWrites(d) \/ ServerCreates(d) \/ ServerDeletes(d)

RunNext(r) ==
    \/ NextPhase(r) \/ Die(r)
    \/ \E cleanup, apply \in BOOLEAN : Start(r, cleanup, apply)
    \/ \E collection \in CollectionName : Find(r, collection)
    \/ \E d \in Doc : Migrate(r, d) \/ CleanUp(r, d)

MigrationNext == ServerNext \/ \E r \in Runner : RunNext(r)

MigrationSpec == MigrationInit /\ [][MigrationNext]_migrationVars

-----------------------------------------------------------------------------
\* A document that is gone, or has its value and its reference under the new name.
Done(d) ==
    d \in stored => (legacy[d] = "valid" => current[d] # Absent) /\ link[d] # "old"

\* Once a run with --apply has finished, every document of the first batches there
\* were when it began has its value, and the reference to its item, under the new
\* name, wherever earlier runs died.
NothingLeftBehind == \A d \in complete : Done(d)

\* A cleanup loses the value or the reference of a document only if a cleanup began
\* before a run with --apply had finished that began with the document in the first
\* batch.  The script does not prevent that: there may have been no run, or the
\* document may have moved up into the first batch since.
LostOnlyByEarlyCleanup == lost \subseteq early

\* What a run has read of a document still holds for its old name; for its new
\* name at least as far as there is a value.
ReadsHold ==
    \A r \in Runner, d \in Doc :
      run[r] # Finished /\ run[r].seen[d].read =>
        /\ d \in stored \cup deleted
        /\ legacy[d] \in {"none", run[r].seen[d].legacy}
        /\ link[d] = "old" => run[r].seen[d].link = "old"
        /\ run[r].seen[d].current # Absent => current[d] # Absent
        /\ d \in run[r].todo /\ current[d] # run[r].seen[d].current => <<r, d>> \in raced

\* The collections of which a migrating run has read what it goes through.
Begun(job) ==
    (UNION {Targets(FALSE, p) : p \in 1..(job.phase - 1)})
      \cup (Targets(FALSE, job.phase) \cap job.found)

\* A run stays within its phases and goes through what it has read.  What is due
\* stays in the first batch as long as it is stored, and is done once the run has
\* gone through it; nothing is due to a cleanup, which knows what is not complete.
OnPlan(r) ==
    LET job == run[r] IN
    /\ job.phase <= LastPhase(job.cleanup)
    /\ job.found \subseteq Sources(job.cleanup, job.phase)
    /\ \A d \in job.todo : job.seen[d].read
    /\ job.due \subseteq stored \cup deleted
    /\ job.due \cap stored \subseteq In(CollectionName)
    /\ \A d \in job.due \ job.todo : Collection[d] \in Begun(job) => Done(d)
    /\ job.due # {} => job.apply /\ ~job.cleanup
    /\ job.apply /\ job.cleanup => Doc \subseteq early \cup complete

RunsOnPlan == \A r \in Runner : run[r] # Finished => OnPlan(r)

\* The inductive invariant: types, that a cleanup loses a value only if it began
\* too early, and what a run can rely on of the documents it has read.
MigrationInv ==
    /\ MigrationTypeOK
    /\ NothingLeftBehind
    /\ LostOnlyByEarlyCleanup
    /\ ReadsHold
    /\ RunsOnPlan

\* Deposit d, in the first batch, refers to i, whose points are still there under the
\* old name; no cleanup that began early can have taken a reference from d.
RefersTo(d, i) ==
    /\ d \in In({"depositrequests"}) \ early
    /\ d \in DOMAIN ItemOf /\ i = ItemOf[d] /\ link[d] # "none"
    /\ i \in stored /\ legacy[i] = "valid"

\* Once a run with --apply has finished that began with an item in the first batch,
\* every deposit that refers to the item has points: its own or those of the item.
DepositsGetItemPoints ==
    \A i \in complete, d \in Doc : RefersTo(d, i) => current[d] # Absent

\* A value under the new name is never replaced by an old one, however often
\* the script runs, unless it got there after that run had read the document.
CurrentStands ==
    [][\A d \in Doc : current[d] # Absent /\ current'[d] # current[d] =>
         current'[d] = Server \/ \E r \in Runner : Migrate(r, d) /\ <<r, d>> \in raced]_current
=============================================================================
