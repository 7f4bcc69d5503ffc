\* A sidebar scope without a namespace of the user.
SPECIFICATION Spec
SYMMETRY Symmetry
CONSTANTS
    Parts = {"views"}
    MaxTime <- Bounds
    Requests = {r1, r2}
    Namespaces = {n1}
    Groups = {g1}
    WildcardGroups = {}
    User = User
    MaxAge = 1
    GroupTtl = 1
    UnresolvedTtl = 0
    ListTime = 0
    LookupTime = 1
    Changing <- SomeChanging
    Lookups = {p1}
    TouchInterval = 2
    RequestTime = 1
    NoRow = NoRow
    SecTeamGroup = g1
    PeerPairs = {p1}
    MaxStaleness = 2
    LoadRetry = 1
    ColdTimeout = 1
    QueryTime = 1
    Images = {"i1", "i2"}
    Feeds = {f1, f2}
    Components = {x}
    Scores = {0, 8}
    Users = {u1, u2}
    Entities = {e1, e2}
    HeartbeatTtl = 1
    AccessTtl = 1
    MaxBuckets = 1
    Moving <- OneMoving
    Tokens = {t1, t2}
    Pairs = {"p1", "p2"}
    NamespaceOf <- OneNamespace
    ClusterOf <- OwnClusters
    SvgTtl = 1
    CacheSize = 1
    AnyOf = AnyOf
    Keys = {k1, k2}
    KeysTtl = 1
    FetchTime = 1
    Cves = {"x", "y"}
    ViewPairs <- BothPairs
    Deployments = {"d1", "d2"}
    PairOf <- OwnPair
    V2Rows <- NewFindings
    LegacyRows <- OldFindings
    Severity <- Severities
    Cvss <- CvssOf
    Epss <- EpssOf
    Viewers <- FourViewers
    Narrowings <- Sidebar
    Subscribed <- OnlyX
    Floors <- TwoFloors
    EscalationRules <- TwoRules
    WarningDays = 3
    OverdueDays = 4
    Now = 10
    Candidates <- SomeDecisions
    All = All
    None = None
    Off = Off
INVARIANT
    NarrowingNarrows
CHECK_DEADLOCK FALSE
