SPECIFICATION FairSpec
CONSTANTS
    ci = ci
    ciLint = ciLint
    Keys = {ci}
    InTitle <- DistinctTitles
    Cooldown = 1
    MaxIssues = 2
    None = None
PROPERTY Reported
