SPECIFICATION Spec
CONSTANTS
    r1 = r1
    r2 = r2
    k1 = k1
    k2 = k2
    Req = {r1, r2}
    Key = {k1, k2}
    KeyOf <- OwnKeys
    Cost <- MixedCosts
    OpeningBalance = 2
    Adjustments <- NoAdjustment
    MaxFunds = 2
    MaxLeases = 3
    TTL = 1
    Grace = 0
    Env = {"tick", "redis", "db", "crash"}
    MaxFaults = 1
    MaxInFlight = 2
INVARIANTS
    Conservation
PROPERTIES
    ImplementsLedger
CHECK_DEADLOCK FALSE
