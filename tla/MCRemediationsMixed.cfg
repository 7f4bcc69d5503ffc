\* Two team members move one remediation at a time.
SPECIFICATION Spec
CONSTANTS
    alice1 = alice1
    bob1 = bob1
    sec1 = sec1
    alice = alice
    bob = bob
    sec = sec
    Clients = {alice1, bob1}
    UserOf <- SignedIn
    SecUsers = {}
    Access <- AllTargets
    Ids = {i1}
    Targets = {t1}
    Legacy = {}
    Stamps = {s1, s2}
    Null = Null
INVARIANT DatedIsCompleted
CHECK_DEADLOCK FALSE
