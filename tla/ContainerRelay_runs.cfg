SPECIFICATION HSpec
CONSTANTS
    None = None
    Assertions <- MCAssertions
    Edits = 1
    PlanOf <- MCPlanOf
    DependsOn <- MCDependsOn
    Verdicts <- MCVerdicts
    Settings <- MCSettings
    MaxRuns = 2
INVARIANTS
    LadderMonotone
    NeverMixed
    SuccessIsSealed
    ClaimsAreOfSealed
    AcceptedWasDecided
    RelayHonest
PROPERTIES
    LaunchEnds
CHECK_DEADLOCK FALSE
