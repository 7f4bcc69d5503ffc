\* A team member, a security analyst and the job; one verified record from before.
SPECIFICATION FairSpec
CONSTANTS
    alice1 = alice1
    bob1 = bob1
    sec1 = sec1
    alice = alice
    bob = bob
    sec = sec
    Clients = {alice1, sec1}
    UserOf <- SignedIn
    SecUsers = {sec}
    Access <- AllTargets
    Ids = {i1, i2, i3}
    Targets = {t1}
    Legacy = {i1}
    Stamps = {s1, s2}
    Null = Null
INVARIANTS
    TypeOK
    OnePerTarget
    ResolvedIsDated
PROPERTIES
    VerifiedIsHistory
    OutlivedEnds
CHECK_DEADLOCK FALSE
