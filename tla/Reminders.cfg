SPECIFICATION MCSpec
CONSTANTS
    u1 = u1
    User = {u1, u2, u3}
    Device = {phone}
    NoDevice = NoDevice
    Job = {d1}
    Deposit = {d1}
    Owner <- MCOwner
    TokenCall = {t1, t2}
    CronRun = {cron}
    JobRun = {job}
    MaxTries = 2
    MaxRestarts = 1
    LastDay = 1
    MaxFaults = 1
INVARIANTS
    RemindersInv
    HoldersBounded
    SendsBounded
    RepeatsBounded
PROPERTIES
    JobsSettle
    ReminderComes
