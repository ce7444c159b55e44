SPECIFICATION GrantSpec
CONSTANTS
    None = None
    Accounts = {a1}
    Consents = {1, 2}
    MaxStamps = 2
    MaxPolls = 2
    MaxRevoked = 1
    MaxTries = 2
CHECK_DEADLOCK FALSE
INVARIANT RevokedIsDeactivated
