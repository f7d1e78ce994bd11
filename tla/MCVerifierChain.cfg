SPECIFICATION Spec
CONSTANTS
    I64Max = 4
    MaxCheckpointSignatures = 3
    MaxStatementSubjects = 4
    TrustStores <- ChainStores
    GithubPolicies <- FewPolicies
    OriginPolicies <- FewOrigins
    Artifacts <- MCArtifacts
    Bundles <- FewBundles
INVARIANT
    ChainErrorIsOfFirstNameMatched
