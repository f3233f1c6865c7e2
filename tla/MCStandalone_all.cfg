SPECIFICATION Spec
CONSTANTS
    Roles = {code, config}
    Contents = {old, new}
    Unset = Unset
    Bundles <- MCBundles
    Orders <- MCOrders
    Sets = {"empty", "debt", "waiver"}
    Empty = "empty"
    Torn = Torn
    None = None
    MaxTime = 1
    MaxIssues = 2
    TestNames = {"a", "b", "c"}
    Discoveries <- MCDiscoveries
    Lanes = {one, two}
    Idle = Idle
    Signal = Signal
    Interval = 1
    Slowest = 4
    Period = 2
    Never = Never
    Pin = pin
    OldImages = {superseded}
    FleetRepos = {"a", "b"}
    Declarations <- MCDeclarations
    NoReport = NoReport
    Partial = Partial
    Digests = {1, 2}
    MaxDay = 1
    MaxCommits = 6
    Versions = {1}
    Unpublished = Unpublished
    NoArtifact = NoArtifact
    MaxCode = 2
    MaxHistory = 4
    MaxVersion = 3
    Mutant = Mutant
    Cut = Cut
    NoSidecar = NoSidecar
    Names = {alpha, beta}
    NoTicket = NoTicket
    Unnamed = Unnamed
    Ids = {1, 2}
    Patterns = {"p"}
    NoPattern = NoPattern
    Broken = Broken
    Blank = Blank
    Loggers = {logger}
    Logged <- MCLogged
    Sources <- MCSources
    MaxLines = 2
    Identities = {"k", "l"}
    Bundled = {"r"}
    Results <- MCResults
    Grants <- MCGrants
    Times = {0, 1, 2}
    Ttls = {Undeclared, 1}
    Undeclared = Undeclared
    Missing = Missing
    Damaged = Damaged
INVARIANTS
    VerifiedIsIndependent
    ReliedOnIsCurrent
    JudgedByIssuedSets
    ReissueHeals
    GreenIsSound
    WedgeIsFound
    ZeroHoldsThePin
    ReportIsWhole
    MoveHeals
    PublishedIsBacked
    OriginalSurvives
    TimersHaveTicket
    KnownBugsStayOut
    ReuseIsSound
PROPERTIES
    TerminalIsFinal
    TestRunnerEnds
    NoFalsePage
    OthersTicketStays
CHECK_DEADLOCK FALSE
