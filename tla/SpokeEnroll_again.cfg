SPECIFICATION EnrollSpec
CONSTANTS
    Names = {alpha}
    NoTicket = NoTicket
    Unnamed = Unnamed
INVARIANTS
    ProvisionedIsEnabled
CHECK_DEADLOCK FALSE
