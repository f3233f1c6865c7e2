SPECIFICATION HSpec
CONSTANTS
    None = None
    Assertions <- MCAssertions
    Edits = 1
    PlanOf <- MCPlanOf
    DependsOn <- MCDependsOn
    Verdicts <- MCVerdicts
    Settings <- MCSettings
    MaxRuns = 2
INVARIANT RelayedIsThisRuns
CHECK_DEADLOCK FALSE
