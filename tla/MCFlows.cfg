SPECIFICATION FlowSpec
CONSTANTS
    MaxRows = 3
    MaxCredits = 3
    PostWorkers = {1, 2}
    MaxPostFaults = 2
    MaxOvertakes = 1
    Tasks = {1, 2}
    MaxTimers = 2
    MaxGenerations = 2
    MaxOrders = 2
    MaxHandlers = 2
    Signatures = {"a", "b"}
    Credits = 2
    MaxSubmits = 3
    MaxRequests = 2
    Reviewers = {1, 2}
    MaxFrozen = 2
    Tabs = {1, 2}
    MaxSessions = 2
INVARIANTS
    FlowTypeOK
    PlanIsTheReference
    PostJobPaysOut
    TimersFollowDetail
    ResultIsOfLastGeneration
    MusicBusyWhileUnderWay
    PaymentCreditedOnce
    OneGiftPerIntent
    FrozenPaysOnce
PROPERTIES
    PostJobEnds
    ShownTaskCatchesUp
    GenerationEnds
    PaymentNoticed
    DeadSessionReachesLogin
CHECK_DEADLOCK FALSE
