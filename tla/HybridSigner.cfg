SPECIFICATION FairSpec
CONSTANTS
    Supervised = service
    ByHand = {shell}
    Keys = {k1, k2, k3, k4, k5, k6, k7, k8}
    PqKeys = {q1, q2, q3, q4, q5}
    WrappingKeys = {w1, w2, w3, w4, w5}
    Invalid = stale
    Torn = torn
    None = None
    U64Max = 3
    MaxTroubles = 4
INVARIANTS
    TypeOK
    SignedUnderOneIdentity
    ServesRecordedIdentity
    RecordOpens
    CertificateOfSigner
PROPERTIES
    GenerationAdvances
    ServiceReturns
