\* A team member and two reviewers, all kinds of targets.
SPECIFICATION Spec
CONSTANTS
    alice1 = alice1
    bob1 = bob1
    sec1 = sec1
    sid1 = sid1
    alice = alice
    bob = bob
    sec = sec
    sid = sid
    Clients = {alice1, sec1, sid1}
    UserOf <- SignedIn
    SecUsers = {sec, sid}
    Rules = {r1, r2}
    CVEs = {cve}
    Patterned = {}
    Bare = {bare}
    Scopes = {global, ns}
    Global = global
    Null = Null
SYMMETRY RuleSymmetry
INVARIANTS
    TypeOK
    ActiveRuleUnique
    SignedFromVerdictOn
PROPERTIES
    NeverBackToRequested
    SignerPassedVerdict
CHECK_DEADLOCK FALSE
