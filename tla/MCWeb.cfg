SPECIFICATION WebSpec
CONSTANTS
    Shapes <- AllShapes
    Keys = {1, 2}
    Rows = {11, 12}
    MaxVersion = 2
    MaxFetches = 2
    MaxActs = 2
    Channels = {1}
    Costs = {1, 2}
    MaxMessages = 2
    MaxConversations = 2
    MaxSaves = 2
INVARIANTS
    WebTypeOK
    AnswersMatchSelection
    OwnWritesShown
    NoDoubleSubmit
    
    
    MessagesKept
PROPERTIES
    NoStepBack
    SavesWhatWasLoaded
CHECK_DEADLOCK FALSE
