SPECIFICATION FairSpec
CONSTANTS
    r1 = r1
    r2 = r2
    k1 = k1
    k2 = k2
    Req = {r1, r2}
    Key = {k1, k2}
    KeyOf <- OwnKeys
    Cost <- MixedCosts
    OpeningBalance = 3
    Adjustments <- NoAdjustment
    MaxFunds = 3
    MaxLeases = 4
    TTL = 1
    Grace = 0
    Env = {"nap", "db"}
    MaxFaults = 1
    MaxInFlight = 3
PROPERTIES
    RefundPersists
CHECK_DEADLOCK FALSE
