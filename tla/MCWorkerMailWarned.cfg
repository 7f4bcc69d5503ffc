\* Two expiry warnings of one acceptance.
SPECIFICATION Spec
CONSTANTS
    Users = {u1}
    Cves = {c1}
    Runs = {r1}
    MaxSubscriptions = 1
    DayLength = 2
    MaxTime = 2
    MaxVersion = 1
    MaxPuts = 1
    MaxEvents = 1
    App = App
    Ids = {i1, i2}
    OwnerOf <- OneOwner
    Retention = 1
    SummaryDays = 2
    MaxOpen = 1
    Namespaces = {n1}
    Severities = {"critical_fixable"}
    OrgWide = {}
    Access <- AllNamespaces
    AlertDays = 1
    NoLocation = NoLocation
    DiffPairs = {p1, p2}
    Specs = {"a@1", "a@2", "b"}
    TagOf <- Tagged
    Components = {"x"}
    Ranks = {1}
    CvssScores = {1}
    EpssScores = {0, 1, 2}
    NotifyDelta = 2
    Thresholds = {0, 1}
    Cap = 2
    MaxChanges = 2
    AllPairs = AllPairs
    None = None
    Talkers = {"b", "s"}
    SecTeam = {"s"}
    Stranger = "x"
    TalkPairs = {"p"}
    Creator = "b"
    AcceptancePairs = {"p"}
    Subscribers = {"b", "s"}
    Reachable = {"b", "s"}
    Mentionings <- AllOrNobody
    Readers = {"b"}
    WarnRuns = {"w1", "w2"}
    MaxMentions = 1
    ScanLimit = 2
    ListLimit = 1
    MaxEdits = 2
    MaxCauses = 2
    MaxMoves = 1
    Unscoped = Unscoped
    Legacy = Legacy
    Off = Off
INVARIANT
    WarnedOncePerAcceptance
CHECK_DEADLOCK FALSE
