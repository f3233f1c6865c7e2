SPECIFICATION FleetSpec
CONSTANTS
    repoA = repoA
    repoB = repoB
    anna = anna
    ben = ben
    main = main
    side = side
    default = default
    Repos = {repoA, repoB}
    Runners = {anna, ben}
    Branches = {main, default}
    Default = default
    Readings <- FleetReadings
    Worlds <- FleetWorlds
    None = None
INVARIANT NothingMissed
INVARIANT NoFalseAlarm
