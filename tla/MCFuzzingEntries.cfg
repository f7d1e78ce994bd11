SPECIFICATION WireSpec
CONSTANTS
    MaxItems = 4
    MaxLen = 4
    MaxLines = 3
    U64Max = 255
    MaxInputBytes = 8
    MaxTlogEntries = 2
    MaxBundlesPerSet = 3
    MaxStatementSubjects = 3
    MaxSignatureLines = 3
    KeyHintBytes = 2
    ByteBase = 5
    LogIdBytes = 1
    TimestampBytes = 1
    Base64 <- MCBase64
    KeyDigest <- MCKeyDigest
    Notes <- MCNotes
    EmbeddedRoots <- MCRoots
    CorpusKey <- MCCorpusKey
    Inputs <- MCWireInputs
CHECK_DEADLOCK FALSE
INVARIANT
    UnsupportedEntriesAreTyped
