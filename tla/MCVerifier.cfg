SPECIFICATION CallsSpec
CONSTANTS
    I64Max = 4
    MaxCheckpointSignatures = 3
    MaxStatementSubjects = 4
    TrustStores <- MCTrustStores
    GithubPolicies <- MCGithubPolicies
    OriginPolicies <- MCOriginPolicies
    Artifacts <- MCArtifacts
    Bundles <- MCBundles
INVARIANTS
    TypeOK
    TimeIsAuthenticated
    OnlyAuthenticatedValuesAreBlamed
    LeafChecksAgree
    FirstFailureIsReported
PROPERTIES
    ImplementsContract
