SPECIFICATION FairSpec
CONSTANTS
    r1 = r1
    r2 = r2
    k1 = k1
    k2 = k2
    Req = {r1, r2}
    Key = {k1}
    KeyOf <- SharedKey
    Cost <- TwoCredits
    OpeningBalance = 4
    Adjustments <- NoAdjustment
    MaxFunds = 4
    MaxLeases = 6
    TTL = 1
    Grace = 0
    Env = {"nap", "redis", "db", "crash"}
    MaxFaults = 2
    MaxInFlight = 3
INVARIANTS
    TypeOK
    RefundsFollowCharges
PROPERTIES
    RequestsEnd
    CreditsComeHome
CHECK_DEADLOCK FALSE
