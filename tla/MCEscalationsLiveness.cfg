\* A single worker whose runs fail at times, everything the world may do.
SPECIFICATION FairSpec
CONSTANTS
    f1 = f1
    f2 = f2
    cve = cve
    NoKey = NoKey
    CveOf <- OneCve
    Deadline <- Deadlines
    Day = 2
    Checks = {k1}
    Warners = {w1}
    Findings = {f1}
    Contacts = {f1}
    Worlds <- AllWorlds
    WarningDays = 2
    MaxTime = 5
INVARIANT WarningUnique
PROPERTY DueEscalates
CHECK_DEADLOCK FALSE
