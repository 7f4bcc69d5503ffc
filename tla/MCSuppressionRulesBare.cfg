\* Two rules for a component without a version pattern.
SPECIFICATION Spec
CONSTANTS
    alice1 = alice1
    bob1 = bob1
    sec1 = sec1
    sid1 = sid1
    alice = alice
    bob = bob
    sec = sec
    sid = sid
    Clients = {alice1, bob1}
    UserOf <- SignedIn
    SecUsers = {}
    Rules = {r1, r2}
    CVEs = {}
    Patterned = {}
    Bare = {bare}
    Scopes = {global}
    Global = global
    Null = Null
INVARIANT ActiveTargetUnique
CHECK_DEADLOCK FALSE
