SPECIFICATION LoopsSpec
CONSTANTS
    MaxLen = 4
    MaxSize = 8
    Patterns <- MCPatterns
    Texts <- MCTexts
    Logs <- MCLogs
    Proofs <- MCProofs
CHECK_DEADLOCK FALSE
INVARIANTS
    TypeOK
    Correct
    OnLevel
    AcceptsOnlyAuditPaths
PROPERTIES
    Progress
    Returns
    WalkEnds
