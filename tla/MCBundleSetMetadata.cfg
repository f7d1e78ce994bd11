SPECIFICATION Spec
CONSTANTS
    MaxItems = 4
    MaxLen = 4
    U64Max = 255
    MaxInputBytes = 8
    MaxTlogEntries = 2
    MaxBundlesPerSet = 3
    Inputs <- MCInputs
CHECK_DEADLOCK FALSE
INVARIANT
    MetadataIsKept
