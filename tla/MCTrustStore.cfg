SPECIFICATION TrustSpec
CONSTANTS
    MaxSecond = 12
    Years = 401
    MaxDays = 24000
    MaxInputBytes = 8
    MaxCertificatesPerChain = 2
    Starts <- MCStarts
    Documents <- MCDocuments
    Evidence <- MCEvidence
    SctTimestamps <- MCSctTimestamps
CHECK_DEADLOCK FALSE
INVARIANTS
    TrustsExactlyWhatIsDeclared
    SctWithinASecondOfDeclared
    DayNumbersAreConsecutive
    InstantsAreUnique
