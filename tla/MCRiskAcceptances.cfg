\* Creators, tabs, reviewers and the job, three clients at a time.
SPECIFICATION CastSpec
CONSTANTS
    alice1 = alice1
    alice2 = alice2
    bob1 = bob1
    sec1 = sec1
    sid1 = sid1
    alice = alice
    bob = bob
    sec = sec
    sid = sid
    Clients = {alice1, alice2, bob1, sec1, sid1}
    UserOf <- SignedIn
    SecUsers = {sec, sid}
    Acceptances = {a1, a2}
    CVEs = {cve}
    Scopes = {one, many}
    SingleTeam = {one}
    ImportScopes = {one, many}
    MaxTime = 1
    Dates = {0}
    Null = Null
    Casts <- Trios
SYMMETRY CastSymmetry
INVARIANTS
    TypeOK
    ActiveScopeUnique
    VerdictsAreSigned
PROPERTIES
    ImplementsReviewGate
    DeletedStaysDeleted
CHECK_DEADLOCK FALSE
