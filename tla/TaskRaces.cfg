SPECIFICATION RacesSpec
CONSTANTS
    h1 = h1
    h2 = h2
    e1 = e1
    e2 = e2
    Channels = 2
    Async = {1}
    Keys = 0
    Handler = {h1}
    MaxDeliver = 2
    ErrorText = {e1}
    Env = {"db", "redeliver", "server", "slow", "slowCreate"}
    MaxFaults = 1
    MaxResults = 1
INVARIANTS
    OneAttemptPaid
    RefundsMatchChargesInEcho
CHECK_DEADLOCK FALSE
