SPECIFICATION FairSpec
CONSTANTS
    repoA = repoA
    repoB = repoB
    anna = anna
    ben = ben
    main = main
    side = side
    default = default
    Repos = {repoA}
    Runners = {anna}
    Branches = {main}
    Default = default
    Readings <- FewReadings
    Worlds <- TwoWorlds
    None = None
INVARIANT NothingMissed
INVARIANT OutageProof
INVARIANT NoFalseAlarm
PROPERTY CycleEnds
