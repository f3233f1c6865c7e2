SPECIFICATION Spec
CONSTANTS
    Names = {n1}
    Tokens = {tok1, tok2}
    MintShaped = {tok1, tok2}
    Threads = {th1, th2}
    NoNewsFields = {}
    PresenceFields = {}
    Readings = {}
    Null = Null
    Unreported = Unreported
    MaxMint = 2
    MaxClock = 2
SYMMETRY ThreadSymmetry
INVARIANT OneRowPerName
