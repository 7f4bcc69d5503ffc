\* One user, two tabs and a reviewer: an approval is stretched.
SPECIFICATION CastSpec
CONSTANTS
    alice1 = alice1
    alice2 = alice2
    bob1 = bob1
    sec1 = sec1
    sid1 = sid1
    alice = alice
    bob = bob
    sec = sec
    sid = sid
    Clients = {alice1, alice2, sec1}
    UserOf <- SignedIn
    SecUsers = {sec}
    Acceptances = {a1}
    CVEs = {cve}
    Scopes = {one, many}
    SingleTeam = {one}
    ImportScopes = {one}
    MaxTime = 0
    Dates = {Null}
    Null = Null
    Casts <- Everybody
INVARIANT SpanningScopesAreReviewed
CHECK_DEADLOCK FALSE
