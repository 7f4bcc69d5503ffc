\* Expiry against an editor's requests, under the fairness of the scheduler.
SPECIFICATION FairCastSpec
CONSTANTS
    alice1 = alice1
    alice2 = alice2
    bob1 = bob1
    sec1 = sec1
    sid1 = sid1
    alice = alice
    bob = bob
    sec = sec
    sid = sid
    Clients = {alice1}
    UserOf <- SignedIn
    SecUsers = {}
    Acceptances = {a1, a2}
    CVEs = {cve}
    Scopes = {one, many}
    SingleTeam = {one}
    ImportScopes = {one}
    MaxTime = 1
    Dates = {0, Null}
    Null = Null
    Casts <- Everybody
PROPERTY PastExpiryEnds
CHECK_DEADLOCK FALSE
