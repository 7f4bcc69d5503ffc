\* An edit of the creator races the review.
SPECIFICATION Spec
CONSTANTS
    alice1 = alice1
    bob1 = bob1
    sec1 = sec1
    sid1 = sid1
    alice = alice
    bob = bob
    sec = sec
    sid = sid
    Clients = {alice1, sec1}
    UserOf <- SignedIn
    SecUsers = {sec}
    Rules = {r1}
    CVEs = {cve}
    Patterned = {}
    Bare = {}
    Scopes = {global, ns}
    Global = global
    Null = Null
PROPERTY ScopeInForceIsReviewed
CHECK_DEADLOCK FALSE
