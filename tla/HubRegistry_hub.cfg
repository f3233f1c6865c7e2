SPECIFICATION FairSpec
CONSTANTS
    Names = {n1}
    Tokens = {tok1, tok2, bad}
    MintShaped = {tok1, tok2}
    Threads = {th1, th2}
    NoNewsFields = {disk_ok}
    PresenceFields = {}
    Readings = {}
    Null = Null
    Unreported = Unreported
    MaxMint = 2
    MaxClock = 2
INVARIANT AckedEnrollmentDurable
INVARIANT AckedRevocationFinal
INVARIANT AckedHeartbeatDurable
INVARIANT OneRowPerToken
PROPERTY ImplementsLedger
PROPERTY EnrollmentEnds
