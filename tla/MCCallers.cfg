SPECIFICATION Spec
CONSTANTS
    Invocations <- MCInvocations
    Files <- MCFiles
    Signed <- MCSigned
    Digests <- MCDigests
    Lowercase <- MCLowercase
    Library <- MCLibrary
    MaxBundlesPerSet = 2
    MaxTlogEntries = 2
    U64Max = 255
    I64Max = 127
    MaxCheckpointSignatures = 2
CHECK_DEADLOCK FALSE
INVARIANTS
    VerifiedMeansAsked
    OnlyBundleOfTheFile
    NoUnenforceablePins
    ShapeCheckLosesNothing
