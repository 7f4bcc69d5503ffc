\* A warning run ends between the mail and the commit.
SPECIFICATION Spec
CONSTANTS
    f1 = f1
    f2 = f2
    cve = cve
    NoKey = NoKey
    CveOf <- OneCve
    Deadline <- Deadlines
    Day = 2
    Checks = {}
    Warners = {w1}
    Findings = {f1}
    Contacts = {f1}
    Worlds <- OnlyShown
    WarningDays = 2
    MaxTime = 3
INVARIANT WarnedOnce
CHECK_DEADLOCK FALSE
