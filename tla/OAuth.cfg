SPECIFICATION FairSpec
CONSTANTS
    h1 = h1
    h2 = h2
    s1 = s1
    s2 = s2
    a1 = a1
    a2 = a2
    None = None
    Handlers <- TwoHandlers
    States <- TwoStates
    Accounts <- TwoAccounts
    MaxSerial = 3
    MaxId = 2
    MaxCrashes = 1
INVARIANTS
    TypeOK
    RefreshTokenKept
    StateOneTime
    TokensOfAccount
PROPERTIES
    RefreshTokenNotDropped
    DisconnectLasts
    ImportsOfAccount
    HandlersEnd
CHECK_DEADLOCK FALSE
