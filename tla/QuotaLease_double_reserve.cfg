SPECIFICATION Spec
CONSTANTS
    r1 = r1
    r2 = r2
    k1 = k1
    k2 = k2
    Req = {r1, r2}
    Key = {k1, k2}
    KeyOf <- OwnKeys
    Cost <- OneCredit
    OpeningBalance = 3
    Adjustments <- NoAdjustment
    MaxFunds = 3
    MaxLeases = 2
    TTL = 1
    Grace = 0
    Env = {}
    MaxFaults = 0
    MaxInFlight = 2
INVARIANTS
    MirrorAtRest
CHECK_DEADLOCK FALSE
