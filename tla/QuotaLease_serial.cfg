SPECIFICATION Spec
CONSTANTS
    r1 = r1
    r2 = r2
    k1 = k1
    k2 = k2
    Req = {r1, r2}
    Key = {k1, k2}
    KeyOf <- OwnKeys
    Cost <- MixedCosts
    OpeningBalance = 3
    Adjustments <- TopUps
    MaxFunds = 4
    MaxLeases = 3
    TTL = 2
    Grace = 1
    Env = {"nap"}
    MaxFaults = 0
    MaxInFlight = 1
INVARIANTS
    MirrorAtRest
    RedisNeverOutlivesLease
    AcceptedChargeIsWritten
PROPERTIES
    RefusalIsHonest
CHECK_DEADLOCK FALSE
