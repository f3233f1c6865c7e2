SPECIFICATION Spec
CONSTANTS
    Names = {n1, n2}
    Tokens = {tok1}
    MintShaped = {tok1}
    Threads = {th1}
    NoNewsFields = {}
    PresenceFields = {}
    Readings = {}
    Null = Null
    Unreported = Unreported
    MaxMint = 2
    MaxClock = 2
SYMMETRY ThreadSymmetry
INVARIANT TokensAreOneTime
