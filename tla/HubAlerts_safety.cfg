SPECIFICATION Spec
CONSTANTS
    ci = ci
    ciLint = ciLint
    Keys = {ci, ciLint}
    InTitle <- DistinctTitles
    Cooldown = 2
    MaxIssues = 2
    None = None
SYMMETRY KeySymmetry
INVARIANT OneOpenUnlessBlind
INVARIANT CommentsSpaced
