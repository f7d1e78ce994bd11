SPECIFICATION Spec
CONSTANTS
    MaxList = 2
    MaxBindings = 2
    EmptyOrigin = ""
    Logs <- MCLogs
    Origins <- MCOrigins
    OriginLists <- MCOriginLists
    MultiLine <- MCMultiLine
CHECK_DEADLOCK FALSE
INVARIANTS
    AllowsExactlyWhatWasAsked
    OnlyMeetableOrigins
