---------------------------- MODULE MCReminders ----------------------------
(* On small instances: the push tokens, the push queue, the delayed jobs of  *)
(* the redis driver, or the runs of the scheduler driver.                    *)
EXTENDS Reminders

CONSTANTS u1

VARIABLE scope      \* which of the four; no step changes it

MCOwner == [d \in Deposit |-> u1]

MCInit ==
    /\ RemindersInit
    /\ scope \in {"tokens", "queue", "delayed", "runs"}
    /\ driver = IF scope = "runs" THEN "scheduler" ELSE "redis"
    /\ scope \in {"delayed", "runs"} => device[u1] # NoDevice

MCNext ==
    /\ \/ scope = "tokens" /\ TokenStep /\ UNCHANGED reminderVars
       \/ /\ scope = "queue"
          /\ \/ Restart
             \/ \E j \in Job : QueueStep(j)
             \/ UserStep /\ UNCHANGED <<taking, reminderVars>>
       \/ scope = "delayed" /\ RemindersNext /\ UNCHANGED run
       \/ scope = "runs" /\ RemindersNext
    /\ UNCHANGED scope

MCSpec == MCInit /\ [][MCNext]_<<vars, scope>> /\ RemindersFairness
=============================================================================
