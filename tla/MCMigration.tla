---------------------------- MODULE MCMigration ----------------------------
(* One run at a time over a state, with and without --apply; or with --apply  *)
(* over an item, a second item that moves up into the first batch when that   *)
(* one is deleted, and a deposit of the second; or two runs at a time, with   *)
(* --apply, over the second item and the deposit.                             *)
EXTENDS Migration, TLC

CONSTANTS st, it, it2, dep

VARIABLE cast       \* the documents there may be; no step changes it

MCCollection ==
    [d \in Doc |-> CASE d = st -> "states" [] d = dep -> "depositrequests" [] OTHER -> "items"]

MCRank == [d \in Doc |-> IF d = it2 THEN 1 ELSE 0]

MCItemOf == [d \in {dep} |-> it2]

MCInit ==
    /\ MigrationInit
    /\ cast \in {{it, it2, dep}, {it2, dep}, {st}}
    /\ stored \subseteq cast

MCNext ==
    /\ MigrationNext
    /\ stored' \subseteq cast
    /\ cast # {it2, dep} => \E r \in Runner : run'[r] = Finished
    /\ cast # {st} => \A r \in Runner : run'[r] # Finished => run'[r].apply
    /\ UNCHANGED cast

RunnerSymmetry == Permutations(Runner)
=============================================================================
