SPECIFICATION SessionSpec
CONSTANTS
    Tabs = {1, 2}
    MaxSessions = 2
PROPERTIES
    PublicRoutesVisible
CHECK_DEADLOCK FALSE
