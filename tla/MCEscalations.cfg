\* Two overlapping runs of each job.
SPECIFICATION Spec
CONSTANTS
    f1 = f1
    f2 = f2
    cve = cve
    NoKey = NoKey
    CveOf <- OneCve
    Deadline <- Deadlines
    Day = 2
    Checks = {k1, k2}
    Warners = {w1, w2}
    Findings = {f1}
    Contacts = {f1}
    Worlds <- ShownOrNot
    WarningDays = 2
    MaxTime = 5
INVARIANTS
    TypeOK
    EscalationUnique
    WarnedWasMailed
SYMMETRY JobSymmetry
CHECK_DEADLOCK FALSE
